---- MODULE Spec2Model ----
(***************************************************************************)
(* The status tracker of ExpLens: OperationsTracker (active-operation      *)
(* stack, bounded log buffer, trimming, compaction), TrackedOperation      *)
(* (lifecycle of one operation), EventDisplayHandle (expiry of events).    *)
(* One action is one call made by the host, or one timer/microtask         *)
(* callback; each action runs the whole handler, including the calls it    *)
(* makes into the tracker (logLine, #trimLogBuffer, …).                    *)
(***************************************************************************)
EXTENDS Integers, Sequences, FiniteSets, TLC

(* ------------------------------ bounds -------------------------------- *)

\* Number of calls the host makes in one behaviour.
MaxCalls == 3

\* Number of clock ticks in one behaviour (performance.now / new Date()).
MaxNow == 1

\* Number of calendar days the clock passes through.
MaxDay == 2

\* Number of nested #trimLogBuffer frames the JavaScript call stack holds;
\* entering one more raises RangeError (maximum call stack size exceeded).
MaxTrimDepth == 3

\* Number of rounds of the compaction loop of dropLogEntriesForCompletedOps
\* that are followed; a call that needs more does not return.
MaxDropRounds == 4

(* -------------------------- program constants ------------------------- *)

\* RotatingIdGenerator(9999999, 1)
OperationIdMax == 9999999
OperationIdStart == 1

\* LogEntryType
LogEntryType == {"Date", "OpStart", "OpEnd", "OpInfo", "OpErrNote"}

\* OperationTransitionMonikers
OperationTransitionMonikers == {"STRT", "INFO", "FAIL", "SUCS", "ATTN", "ERRS"}

\* The info a caller attaches: nothing, plain data, or data that shallowly
\* contains an Error.
InfoKinds == {"none", "data", "error"}

\* The configurations (logBufferSize, logBufferCleanStep) the tracker is run
\* with; every one satisfies 1 <= logBufferCleanStep <= logBufferSize.
Configs == {<<6, 6>>, <<3, 3>>}

VARIABLES
    ops,            \* every TrackedOperation constructed, by object identity
    activeOps,      \* OperationsTracker.#activeOps (object identities)
    loggedOps,      \* OperationsTracker.#loggedOps
    lastLoggedTs,   \* OperationsTracker.#lastLoggedTs (calendar day; 0 = 2000-02-01)
    trimming,       \* OperationsTracker.#trimmingLogBufferInProgress
    nextId,         \* RotatingIdGenerator.#nextId
    config,         \* OperationsTracker.config
    handles,        \* EventDisplayHandle / DelayPromise state per event
    now,            \* the clock (performance.now, time of day of new Date())
    today,          \* the calendar day of new Date()
    calls,          \* number of host calls made so far
    last,           \* what the last call did: result, notifications, trims
    captures,       \* console functions, capture bridges and their handles
    util,           \* the utility object a specification exercises on its own
    statusView      \* the listener's view of the log (status-log.ts, FullLog)

vars == <<ops, activeOps, loggedOps, lastLoggedTs, trimming, nextId, config,
          handles, now, today, calls, last, captures, util, statusView>>

\* No utility object is under test.
NoUtil == [kind |-> "none"]

\* config.operationsListener is a listener whose notifyLogEntriesDeleted
\* throws.
ThrowingListener == [kind |-> "listener", notifyLogEntriesDeleted |-> "throws"]

(* ------------------------ tracker state record ------------------------ *)

\* The tracker's fields as one value, threaded through the handlers. The
\* fields notes, console, trims and dropped collect what the running call
\* emits; exc is TRUE while an exception propagates, and thrown tells
\* whether it is the error value the caller passed in ("given").
Tracker ==
    [ops |-> ops, activeOps |-> activeOps, loggedOps |-> loggedOps,
     lastLoggedTs |-> lastLoggedTs, trimming |-> trimming, nextId |-> nextId,
     notes |-> <<>>, console |-> <<>>, trims |-> <<>>, dropped |-> <<>>,
     exc |-> FALSE, ret |-> FALSE, hung |-> FALSE, thrown |-> "none",
     cap |-> captures]

hasData(info) == info # "none"

getErrors(info) == info = "error"

\* config.operationsListener?.notifyXxx(..)
Notify(s, n) == [s EXCEPT !.notes = Append(@, n)]

\* (config.virtualConsole ?? console).log / .error
ConsoleWrite(s, fn, what) == [s EXCEPT !.console = Append(@, <<fn, what>>)]

formatDateLogEntry(date) == <<"Date", date>>

(* ------------------------- RotatingIdGenerator ------------------------ *)

createNextId(s) ==
    [s EXCEPT !.nextId = IF s.nextId = OperationIdMax THEN OperationIdStart
                         ELSE s.nextId + 1]

\* formatId renders this.#nextId, which createNextId has already advanced.
formatId(s, id) == s.nextId

(* --------------------------- active stack ----------------------------- *)

RECURSIVE TopContainerFrom(_, _, _)
TopContainerFrom(os, stack, i) ==
    IF i < 1 THEN 0
    ELSE IF os[stack[i]].isContainer THEN stack[i]
    ELSE TopContainerFrom(os, stack, i - 1)

\* The topmost entry of the stack, container or not.
getCurrentTopEntry(s) ==
    IF s.activeOps = <<>> THEN 0 ELSE s.activeOps[Len(s.activeOps)]

getCurrentTopContainer(s) == TopContainerFrom(s.ops, s.activeOps, Len(s.activeOps))

RECURSIVE IndexFrom(_, _, _)
IndexFrom(stack, o, i) ==
    IF i < 1 THEN 0
    ELSE IF stack[i] = o THEN i
    ELSE IndexFrom(stack, o, i - 1)

\* 1-based position of the operation on the stack, 0 when absent.
indexOfActiveOps(s, o) == IndexFrom(s.activeOps, o, Len(s.activeOps))

RECURSIVE IndexByIdFrom(_, _, _, _)
IndexByIdFrom(os, stack, idStr, i) ==
    IF i < 1 THEN 0
    ELSE IF os[stack[i]].operationIdStr = idStr THEN i
    ELSE IndexByIdFrom(os, stack, idStr, i - 1)

indexOfActiveOpsByIdStr(s, idStr) ==
    IndexByIdFrom(s.ops, s.activeOps, idStr, Len(s.activeOps))

RemoveAt(seq, i) == SubSeq(seq, 1, i - 1) \o SubSeq(seq, i + 1, Len(seq))

\* A push that notifies the listener before the operation is on the stack.
addToActiveOpsStackNotifyFirst(s, o) ==
    LET s1 == Notify(s, [kind |-> "stack", stack |-> s.activeOps])
    IN [s1 EXCEPT !.activeOps = Append(@, o)]

addToActiveOpsStack(s, o) ==
    LET s1 == [s EXCEPT !.activeOps = Append(@, o)]
    IN Notify(s1, [kind |-> "stack", stack |-> s1.activeOps])

\* A removal that notifies the listener also when nothing was removed.
removeFromActiveOpsStackAlwaysNotifying(s, o) ==
    IF Len(s.activeOps) < 1
    THEN Notify(ConsoleWrite(s, "error", "no activeOps"),
                [kind |-> "stack", stack |-> s.activeOps])
    ELSE LET opInd == indexOfActiveOps(s, o)
         IN IF opInd < 1
            THEN Notify(ConsoleWrite(s, "error", "not in activeOps"),
                        [kind |-> "stack", stack |-> s.activeOps])
            ELSE LET s1 == [s EXCEPT !.activeOps = RemoveAt(@, opInd)]
                 IN Notify(s1, [kind |-> "stack", stack |-> s1.activeOps])

removeFromActiveOpsStack(s, o) ==
    IF Len(s.activeOps) < 1
    THEN ConsoleWrite(s, "error", "no activeOps")
    ELSE LET opInd == indexOfActiveOps(s, o)
         IN IF opInd < 1
            THEN ConsoleWrite(s, "error", "not in activeOps")
            ELSE LET s1 == [s EXCEPT !.activeOps = RemoveAt(@, opInd)]
                 IN Notify(s1, [kind |-> "stack", stack |-> s1.activeOps])

(* ------------------ logging, trimming, operations --------------------- *)

\* x is evaluated once and F applied to its value: the sequencing of two
\* statements, the second reading what the first left.
Bind(x, F(_)) == CHOOSE y \in {F(v) : v \in {x}} : TRUE

\* The handlers call one another (logLine -> #trimLogBuffer -> startOperation
\* -> constructor -> logLine ...). The parameter d is the number of
\* #trimLogBuffer frames on the call stack.
RECURSIVE logLine(_, _, _, _, _)
RECURSIVE trimLogBuffer(_, _)
RECURSIVE logErrors(_, _, _)
RECURSIVE TrackedOperation(_, _, _, _, _, _, _, _)
RECURSIVE startOperation(_, _, _, _)
RECURSIVE setCompleted(_, _, _, _, _)
RECURSIVE addInfo(_, _, _, _)

logDateIfChanged(s, avoidConsole) ==
    IF s.lastLoggedTs = today
    THEN s
    ELSE LET logEntry == [type |-> "Date", opId |-> 0,
                          entry |-> formatDateLogEntry(today)]
             s1 == [s EXCEPT !.lastLoggedTs = today,
                             !.loggedOps = Append(@, logEntry)]
             s2 == Notify(s1, [kind |-> "emitted", entry |-> logEntry])
         IN IF config.writeToConsole /\ ~avoidConsole
            THEN ConsoleWrite(s2, "log", "Date")
            ELSE s2

\* logLine up to the check of the buffer length.
LogLinePush(s, moniker, o, entryType) ==
    LET logEntry == [type |-> entryType, opId |-> s.ops[o].operationIdStr,
                     entry |-> <<moniker, now>>]
        s2 == [s EXCEPT !.loggedOps = Append(@, logEntry)]
        s3 == Notify(s2, [kind |-> "emitted", entry |-> logEntry])
    IN IF config.writeToConsole /\ ~s.ops[o].avoidConsole
       THEN ConsoleWrite(s3, "log", moniker)
       ELSE s3

logLine(s, moniker, o, entryType, d) ==
    Bind(logDateIfChanged(s, s.ops[o].avoidConsole), LAMBDA s1 :
    Bind(LogLinePush(s1, moniker, o, entryType), LAMBDA s4 :
        IF Len(s4.loggedOps) > config.logBufferSize
        THEN trimLogBuffer(s4, d)
        ELSE s4))

\* Position of the first Date entry among the first e entries, 0 when none.
FirstDateIndex(entries, e) ==
    IF \E i \in 1..e : entries[i].type = "Date"
    THEN CHOOSE i \in 1..e : /\ entries[i].type = "Date"
                             /\ \A j \in 1..(i - 1) : entries[j].type # "Date"
    ELSE 0

RECURSIVE LastDateIndex(_, _)
\* Position of the last Date entry among the first e entries, 0 when none.
LastDateIndex(entries, e) ==
    IF e < 1 THEN 0
    ELSE IF entries[e].type = "Date" THEN e
    ELSE LastDateIndex(entries, e - 1)

Min(a, b) == IF a < b THEN a ELSE b

\* Array.prototype.splice(start, count) with 0-based start.
Splice(seq, start, count) ==
    LET from == Min(start, Len(seq))
        to == Min(start + count, Len(seq))
    IN [removed |-> SubSeq(seq, from + 1, to),
        rest |-> SubSeq(seq, 1, from) \o SubSeq(seq, to + 1, Len(seq))]

\* Array.prototype.splice(start, 0, item) with 0-based start.
InsertAt(seq, start, item) ==
    SubSeq(seq, 1, start) \o <<item>> \o SubSeq(seq, start + 1, Len(seq))

\* The catch block of #trimLogBuffer.
TrimCatch(s, opTrimLog, d) ==
    Bind([s EXCEPT !.exc = FALSE, !.trimming = FALSE], LAMBDA s1 :
        setCompleted(s1, opTrimLog, FALSE, "error", d))

\* A removal step that removes one entry fewer than logBufferCleanStep.
TrimRemoveOneLess(s, lenAtStart, d) ==
    LET sp == Splice(s.loggedOps, 0, config.logBufferCleanStep - 1)
        removedEntries == sp.removed
        e == LastDateIndex(removedEntries, Len(removedEntries))
        replacementEntries == IF e > 0 THEN <<removedEntries[e]>> ELSE <<>>
    IN [s EXCEPT !.loggedOps = replacementEntries \o sp.rest,
                 !.trims = Append(@,
                    [depth |-> d,
                     lenAtStart |-> lenAtStart,
                     lenBefore |-> Len(s.loggedOps),
                     removed |-> removedEntries,
                     replacement |-> replacementEntries,
                     bufAfter |-> replacementEntries \o sp.rest])]

\* The removal step of #trimLogBuffer: splice, search for the last removed
\* date entry, unshift. <<>> stands for the null replacementEntries.
TrimRemove(s, lenAtStart, d) ==
    LET sp == Splice(s.loggedOps, 0, config.logBufferCleanStep)
        removedEntries == sp.removed
        e == LastDateIndex(removedEntries, Len(removedEntries))
        replacementEntries == IF e > 0 THEN <<removedEntries[e]>> ELSE <<>>
    IN [s EXCEPT !.loggedOps = replacementEntries \o sp.rest,
                 !.trims = Append(@,
                    [depth |-> d,
                     lenAtStart |-> lenAtStart,
                     lenBefore |-> Len(s.loggedOps),
                     removed |-> removedEntries,
                     replacement |-> replacementEntries,
                     bufAfter |-> replacementEntries \o sp.rest])]

\* The try block of #trimLogBuffer with its catch; d counts this frame.
TrimTry(s, opTrimLog, lenAtStart, d) ==
    Bind(TrimRemove(s, lenAtStart, d), LAMBDA s3 :
    Bind(addInfo(s3, opTrimLog, "data", d), LAMBDA s4 :
        IF s4.exc THEN TrimCatch(s4, opTrimLog, d)
        ELSE
    Bind(Notify(s4, [kind |-> "deleted",
                     removed |-> s3.trims[Len(s3.trims)].removed,
                     replacement |-> s3.trims[Len(s3.trims)].replacement]),
         LAMBDA s5 :
        IF util = ThrowingListener THEN TrimCatch(s5, opTrimLog, d)
        ELSE
    Bind([s5 EXCEPT !.trimming = FALSE], LAMBDA s6 :
    Bind(setCompleted(s6, opTrimLog, TRUE, "data", d), LAMBDA s7 :
        IF s7.exc THEN TrimCatch(s7, opTrimLog, d) ELSE s7)))))

trimLogBuffer(s, d) ==
    IF s.trimming THEN s
    ELSE IF d >= MaxTrimDepth THEN [s EXCEPT !.exc = TRUE]
    ELSE
    Bind([s EXCEPT !.trimming = TRUE], LAMBDA s1 :
    Bind(startOperation(s1, "Trimming Log Buffer", "data", d + 1), LAMBDA s2 :
        IF s2.exc THEN s2
        ELSE TrimTry(s2, Len(s.ops) + 1, Len(s.loggedOps), d + 1)))

logErrors(s, o, d) ==
    IF s.ops[o].avoidConsole THEN s
    ELSE Bind(logLine(s, "ERRS", o, "OpErrNote", d), LAMBDA s1 :
            IF s1.exc THEN s1
            ELSE IF config.writeToConsole /\ ~s1.ops[o].avoidConsole
            THEN ConsoleWrite(s1, "error", "Err 1 of 1")
            ELSE s1)

\* A nesting depth that copies the parent's.
nestDepthOfParent(os, parent) == IF parent # 0 THEN os[parent].nestDepth ELSE 0

\* this.#nestDepth = parent ? parent.#nestDepth + 1 : 0
nestDepthFor(os, parent) == IF parent # 0 THEN os[parent].nestDepth + 1 ELSE 0

\* The fields of a TrackedOperation when its constructor has set them.
\* completion is the state of the promise of #completion ("null" without a
\* PromiseCompletionSource), completionId tells the sources apart: the n-th
\* source constructed for the operation has id n.
NewOperation(s, operationId, name, parent, isContainer, avoidConsole, info) ==
    [name |-> name,
     operationIdNum |-> operationId.idNum,
     operationIdStr |-> operationId.idStr,
     parent |-> parent,
     nestDepth |-> nestDepthFor(s.ops, parent),
     isContainer |-> isContainer,
     avoidConsole |-> avoidConsole,
     info |-> IF hasData(info) THEN <<info>> ELSE <<>>,
     isSucceeded |-> FALSE,
     isFailed |-> FALSE,
     endTimestamp |-> -1,
     completion |-> "null",
     completionId |-> 0,
     startTimestamp |-> now,
     startMSec |-> now,
     stopMSec |-> -1]

\* Parent info never lifted: it always gets a line of its own.
liftParentInfoNever(isContainer, info) == FALSE

\* Parent info lifted into the start line whenever there is no info.
liftParentInfoWithoutInfo(isContainer, info) == ~hasData(info)

\* const liftParentInfo = !this.#isContainer && !hasData(info)
liftParentInfoFor(isContainer, info) == ~isContainer /\ ~hasData(info)

\* new TrackedOperation(tracker, operationId, name, parent, isContainer,
\*                      iconStr, avoidConsole, info)
TrackedOperation(s, operationId, name, parent, isContainer, avoidConsole, info, d) ==
    LET o == Len(s.ops) + 1
        liftParentInfo == liftParentInfoFor(isContainer, info)
    IN
    Bind([s EXCEPT !.ops = Append(@, NewOperation(s, operationId, name, parent,
                                      isContainer, avoidConsole, info))],
         LAMBDA s0 :
    Bind(logLine(s0, IF isContainer THEN "STRT" ELSE "ATTN", o, "OpStart", d),
         LAMBDA s1 :
    Bind(IF liftParentInfo \/ s1.exc THEN s1
         ELSE logLine(s1, "INFO", o, "OpInfo", d), LAMBDA s2 :
    Bind(IF getErrors(info) /\ ~s2.exc THEN logErrors(s2, o, d) ELSE s2,
         LAMBDA s3 :
        IF s3.exc THEN s3 ELSE addToActiveOpsStack(s3, o)))))

\* createAndFormatNextId, applied to the generator state before the call.
createAndFormatNextId(s) ==
    [idNum |-> s.nextId, idStr |-> formatId(createNextId(s), s.nextId)]

startOperation(s, name, info, d) ==
    TrackedOperation(createNextId(s), createAndFormatNextId(s), name,
                     getCurrentTopContainer(s), TRUE, FALSE, info, d)

\* Stopwatch.elapsedMSec of the operation's timer.
getDurationMSec(op) ==
    (IF op.stopMSec # -1 THEN op.stopMSec ELSE now) - op.startMSec

\* A completion check that looks at the success flag alone.
isCompletedSucceededOnly(op) == op.isSucceeded

\* get isCompleted()
isCompleted(op) == op.isSucceeded \/ op.isFailed

\* setCompleted from timer.stop() to the setting of the outcome.
SetOutcome(s, o, isSuccess, info) ==
    [s EXCEPT !.ops[o].stopMSec = now,
              !.ops[o].endTimestamp = now,
              !.ops[o].info = IF hasData(info) THEN Append(@, info) ELSE @,
              !.ops[o].isSucceeded = isSuccess,
              !.ops[o].isFailed = ~isSuccess]

\* setCompleted after the OpEnd line is logged.
AfterEndLogged(s, o) ==
    LET s4 == IF s.ops[o].completion # "null"
              THEN [s EXCEPT !.ops[o].completion = "resolved"]
              ELSE s
        s5 == IF s.ops[o].isContainer THEN removeFromActiveOpsStack(s4, o) ELSE s4
    IN [s5 EXCEPT !.ret = TRUE]

setCompleted(s, o, isSuccess, info, d) ==
    IF isCompleted(s.ops[o])
    THEN [s EXCEPT !.ret = FALSE]
    ELSE
    Bind(SetOutcome(s, o, isSuccess, info), LAMBDA s1 :
    Bind(IF getErrors(info) THEN logErrors(s1, o, d) ELSE s1, LAMBDA s2 :
        IF s2.exc THEN s2
        ELSE
    Bind(logLine(s2, IF s2.ops[o].isContainer
                     THEN (IF s2.ops[o].isSucceeded THEN "SUCS" ELSE "FAIL")
                     ELSE "ATTN", o, "OpEnd", d), LAMBDA s3 :
        IF s3.exc THEN s3 ELSE AfterEndLogged(s3, o))))

\* A getter that hands out the new promise without resolving it.
getCompletionUnresolved(s, o) ==
    IF s.ops[o].completion = "null"
    THEN [s EXCEPT !.ops[o].completion = "pending",
                   !.ops[o].completionId = @ + 1,
                   !.ret = TRUE]
    ELSE [s EXCEPT !.ret = TRUE]

\* get completion(): the promise of #completion, created at the first
\* request and resolved at once when the operation is already completed.
getCompletion(s, o) ==
    IF s.ops[o].completion = "null"
    THEN [s EXCEPT !.ops[o].completion =
                       IF isCompleted(s.ops[o]) THEN "resolved" ELSE "pending",
                   !.ops[o].completionId = @ + 1,
                   !.ret = TRUE]
    ELSE [s EXCEPT !.ret = TRUE]

\* setFailureAndRethrow(error, ...moreInfo): the info of the completion
\* holds the error first; error is "error" for an Error, "data" otherwise.
setFailureAndRethrow(s, o, error, d) ==
    Bind(setCompleted(s, o, FALSE, error, d), LAMBDA s1 :
        IF s1.exc THEN [s1 EXCEPT !.thrown = "other"]
        ELSE [s1 EXCEPT !.exc = TRUE, !.thrown = "given"])

addInfo(s, o, data, d) ==
    Bind([s EXCEPT !.ops[o].info = Append(@, data)], LAMBDA s1 :
    Bind(logLine(s1, "INFO", o, "OpEnd", d), LAMBDA s2 :
        IF s2.exc THEN s2
        ELSE IF getErrors(data) THEN logErrors(s2, o, d)
        ELSE s2))

(* ------------------- dropLogEntriesForCompletedOps -------------------- *)

\* "__impossible_id_"
ImpossibleOpId == -1

isOperationComplete(s, opL) ==
    opL.opId = 0 \/ indexOfActiveOpsByIdStr(s, opL.opId) < 1

RECURSIVE SkipIncomplete(_, _, _)
\* First inner loop: the 0-based index of the first complete entry at or
\* after dropFrom (the length when there is none).
SkipIncomplete(s, dropFrom, lastCheckId) ==
    IF dropFrom >= Len(s.loggedOps) THEN dropFrom
    ELSE LET loggedOp == s.loggedOps[dropFrom + 1]
         IN IF loggedOp.opId = lastCheckId
            THEN SkipIncomplete(s, dropFrom + 1, lastCheckId)
            ELSE IF isOperationComplete(s, loggedOp) THEN dropFrom
            ELSE SkipIncomplete(s, dropFrom + 1, loggedOp.opId)

RECURSIVE FindCompleted(_, _, _)
\* Second inner loop: the 0-based index after the run of complete entries.
FindCompleted(s, dropTo, lastCheckId) ==
    IF dropTo >= Len(s.loggedOps) THEN dropTo
    ELSE LET loggedOp == s.loggedOps[dropTo + 1]
         IN IF loggedOp.opId = lastCheckId
            THEN FindCompleted(s, dropTo + 1, lastCheckId)
            ELSE IF ~isOperationComplete(s, loggedOp) THEN dropTo
            ELSE FindCompleted(s, dropTo + 1,
                               IF loggedOp.opId = 0 THEN ImpossibleOpId
                               ELSE loggedOp.opId)

\* The splice of one round and the restoring of a dropped date entry.
DropRange(s, dropFrom, dropCount) ==
    LET sp == Splice(s.loggedOps, dropFrom, dropCount)
        droppedEntries == sp.removed
        e == LastDateIndex(droppedEntries, Len(droppedEntries))
        restored == IF dropFrom < Len(sp.rest)
                       /\ sp.rest[dropFrom + 1].type # "Date"
                       /\ e > 0
                    THEN InsertAt(sp.rest, dropFrom, droppedEntries[e])
                    ELSE sp.rest
    IN [s EXCEPT !.loggedOps = restored, !.dropped = @ \o droppedEntries]

RECURSIVE DropLoop(_, _, _, _)
\* The while (true) loop, round by round; it ends with the buffer compacted
\* or with s.exc set. A loop that is still running after MaxDropRounds rounds
\* is reported in s.hung: the call does not return.
DropLoop(s, opRemComplOps, dropFrom0, round) ==
    LET dropFrom == SkipIncomplete(s, dropFrom0, ImpossibleOpId)
        dropTo == FindCompleted(s, dropFrom, ImpossibleOpId)
        dropCount == dropTo - dropFrom
    IN IF dropFrom >= Len(s.loggedOps) THEN s
       ELSE IF dropCount = 1 /\ s.loggedOps[dropFrom + 1].type = "Date" THEN s
       ELSE IF round >= MaxDropRounds THEN [s EXCEPT !.hung = TRUE]
       ELSE
       Bind(<<dropFrom, dropCount>>, LAMBDA r :
       Bind(addInfo(s, opRemComplOps, "data", 0), LAMBDA s1 :
           IF s1.exc THEN s1
           ELSE
       Bind(DropRange(s1, r[1], r[2]), LAMBDA s2 :
           DropLoop(s2, opRemComplOps, r[1], round + 1))))

\* The catch block of dropLogEntriesForCompletedOps.
DropCatch(s, opRemComplOps) ==
    Bind([s EXCEPT !.exc = FALSE], LAMBDA s1 :
        setCompleted(s1, opRemComplOps, FALSE, "error", 0))

\* The try block of dropLogEntriesForCompletedOps with its catch.
DropTry(s, opRemComplOps) ==
    Bind(DropLoop(s, opRemComplOps, 0, 0), LAMBDA s2 :
        IF s2.hung THEN s2
        ELSE IF s2.exc THEN DropCatch(s2, opRemComplOps)
        ELSE
    Bind(addInfo(s2, opRemComplOps, "data", 0), LAMBDA s3 :
        IF s3.exc THEN DropCatch(s3, opRemComplOps)
        ELSE
    Bind(Notify(s3, [kind |-> "revised", log |-> s3.loggedOps]), LAMBDA s4 :
    Bind(setCompleted(s4, opRemComplOps, TRUE, "data", 0), LAMBDA s5 :
        IF s5.exc THEN DropCatch(s5, opRemComplOps) ELSE s5))))

dropLogEntriesForCompletedOps(s) ==
    Bind(startOperation(s, "Dropping Log Entries for Completed Operations",
                        "none", 0), LAMBDA s1 :
        IF s1.exc THEN s1
        ELSE IF Len(s1.loggedOps) = 0
        THEN setCompleted(s1, Len(s.ops) + 1, TRUE, "data", 0)
        ELSE DropTry(s1, Len(s.ops) + 1))

(* -------------------------- observeEvent ------------------------------ *)

\* new DelayPromise(delayMSec) throws unless delayMSec is an integer >= 0.
DelayPromiseThrows(delayMSec) == delayMSec \notin Nat

\* new EventDisplayHandle(op, config.eventDisplayDurationMSec) at the end of
\* observeEvent.
EventDisplayHandle(s) ==
    IF s.exc \/ ~DelayPromiseThrows(config.eventDisplayDurationMSec) THEN s
    ELSE [s EXCEPT !.exc = TRUE]

\* An observeEvent that completes the event as failed when its info holds an
\* Error.
observeEventFailingOnError(s, capture, eventInfo, more) ==
    Bind(TrackedOperation(createNextId(s), createAndFormatNextId(s), "event",
                          getCurrentTopContainer(s), FALSE, capture,
                          eventInfo, 0), LAMBDA s2 :
    \* op.addInfo(moreInfo): the rest array is passed as one value, so an
    \* Error inside it is not at the first layer.
    Bind(IF more /\ ~s2.exc THEN addInfo(s2, Len(s.ops) + 1, "data", 0) ELSE s2,
         LAMBDA s3 :
        IF s3.exc THEN s3
        ELSE EventDisplayHandle(
                 setCompleted(s3, Len(s.ops) + 1, ~getErrors(eventInfo),
                              "none", 0))))

\* capture: EventLevelKind.is(kind, EventLevelKind.ConsoleCapture);
\* more: moreInfo.length > 0. The result is the state after op.setSuccess().
observeEvent(s, capture, eventInfo, more) ==
    Bind(TrackedOperation(createNextId(s), createAndFormatNextId(s), "event",
                          getCurrentTopContainer(s), FALSE, capture,
                          eventInfo, 0), LAMBDA s2 :
    \* op.addInfo(moreInfo): the rest array is passed as one value, so an
    \* Error inside it is not at the first layer.
    Bind(IF more /\ ~s2.exc THEN addInfo(s2, Len(s.ops) + 1, "data", 0) ELSE s2,
         LAMBDA s3 :
        IF s3.exc THEN s3
        ELSE EventDisplayHandle(
                 setCompleted(s3, Len(s.ops) + 1, TRUE, "none", 0))))

(* --------------------------- capture bridges -------------------------- *)

\* export const ConsoleFuncNames = [...]
ConsoleFuncNames == {"debug", "error", "info", "log", "trace", "warn"}

\* enum EventLevelKind
EventLevelKind ==
    [Inf |-> 1, Wrn |-> 2, Err |-> 4, Suc |-> 8, ConsoleCapture |-> 512,
     WindowErrCapture |-> 1024]

\* EventLevelKind.is: (eventLevel & isKind) === isKind, for a one-bit isKind.
EventLevelKindIs(eventLevel, isKind) == (eventLevel \div isKind) % 2 = 1

\* The console and the bridges before any capture is installed. consoleFn[fn]
\* is the function stored in console[fn]: the browser's "original", the
\* "redirect" function of applyRedirectConsole, or a "foreign" function a
\* third party stored there. virtualConsole is tracker.config.virtualConsole.
\* accumulatorOpen is privates.currentAccumulator # null (its timer is
\* pending), countEvents the counter of that accumulator.
\* called is the console call the host makes in the running call, with the
\* function console[fn] held when it was made; printed and forwarded collect
\* the invocations of the original console functions and the events the
\* capture target recorded during the running call.
NoCapture ==
    [consoleFn |-> [fn \in ConsoleFuncNames |-> "original"],
     virtualConsole |-> "null",
     hasConsoleHandle |-> FALSE, isRedirectCancelled |-> FALSE,
     hasWindowHandle |-> FALSE, isCaptureCancelled |-> FALSE,
     listeners |-> {},
     accumulatorOpen |-> FALSE, countEvents |-> 0,
     called |-> <<>>, printed |-> <<>>, forwarded |-> <<>>]

\* A capture target that tags every function as a plain log.
mapConsoleFuncToEventKindAsLog(fn) ==
    EventLevelKind.Suc + EventLevelKind.ConsoleCapture

mapConsoleFuncToEventKind(fn) ==
    CASE fn = "error" -> EventLevelKind.Err + EventLevelKind.ConsoleCapture
      [] fn = "warn" -> EventLevelKind.Wrn + EventLevelKind.ConsoleCapture
      [] fn = "log" -> EventLevelKind.Suc + EventLevelKind.ConsoleCapture
      [] OTHER -> EventLevelKind.Inf + EventLevelKind.ConsoleCapture

\* const FLAG_AVOID_LOGGING_TO_CONSOLE_FOR_CAPTURED_CONSOLE_OUTPUT = true;
\* avoidConsole = EventLevelKind.is(kind, EventLevelKind.ConsoleCapture)
avoidConsoleFor(kind) == EventLevelKindIs(kind, EventLevelKind.ConsoleCapture)

\* The redirect target of captureConsoleToTracker. info is always a string
\* ("-no-args" or "arg1: ..."), the arguments are passed on as moreInfo.
captureTarget(s, consFN, argc) ==
    Bind(observeEvent(s, avoidConsoleFor(mapConsoleFuncToEventKind(consFN)),
                      "data", argc > 0), LAMBDA s1 :
        [s1 EXCEPT !.cap.forwarded =
            Append(@, [fn |-> consFN,
                       kind |-> mapConsoleFuncToEventKind(consFN),
                       op |-> Len(s.ops) + 1])])

\* originalFunc(...arguments)
invokeOriginalFunc(s, fn, argc) ==
    [s EXCEPT !.cap.printed = Append(@, <<fn, argc>>)]

\* redirectFunc with invokeOriginal: the target, then the original, each in
\* its own try; an error of either is rethrown at the end.
redirectFunc(s, fn, argc) ==
    Bind(captureTarget(s, fn, argc), LAMBDA s1 :
        [invokeOriginalFunc([s1 EXCEPT !.exc = FALSE], fn, argc)
            EXCEPT !.exc = s1.exc])

\* console[fn](...args). What a foreign function does is not part of the
\* program: the call ends there.
consoleCall(s, fn, argc) ==
    CASE s.cap.consoleFn[fn] = "redirect" -> redirectFunc(s, fn, argc)
      [] s.cap.consoleFn[fn] = "original" -> invokeOriginalFunc(s, fn, argc)
      [] OTHER -> s

\* captureConsoleToTracker(tracker): the virtual console is a copy of the
\* console functions taken before the redirection; prevVirtualConsole is the
\* default null.
captureConsoleToTracker(s) ==
    consoleCall([s EXCEPT !.cap.virtualConsole = "snapshot",
                          !.cap.consoleFn =
                              [fn \in ConsoleFuncNames |-> "redirect"],
                          !.cap.hasConsoleHandle = TRUE,
                          !.cap.isRedirectCancelled = FALSE],
                "warn", 1)

\* ConsoleRedirectHandle.cancel() without options: throws when some
\* console[fn] is no longer the redirect function of this handle.
cancelRedirect(s) ==
    IF s.cap.isRedirectCancelled THEN [s EXCEPT !.ret = FALSE]
    ELSE IF \E fn \in ConsoleFuncNames : s.cap.consoleFn[fn] # "redirect"
    THEN [s EXCEPT !.exc = TRUE]
    ELSE [s EXCEPT !.cap.consoleFn = [fn \in ConsoleFuncNames |-> "original"],
                   !.cap.isRedirectCancelled = TRUE,
                   !.ret = TRUE]

\* ConsoleCaptureHandle.cancel()
cancelConsoleCapture(s) ==
    IF s.cap.isRedirectCancelled THEN [s EXCEPT !.ret = FALSE]
    ELSE
    Bind(consoleCall(s, "warn", 1), LAMBDA s1 :
        IF s1.exc THEN s1
        ELSE
        Bind(cancelRedirect(s1), LAMBDA s2 :
            IF s2.exc THEN s2
            ELSE IF s2.ret /\ s2.cap.virtualConsole = "snapshot"
            THEN [s2 EXCEPT !.cap.virtualConsole = "null"]
            ELSE
            Bind(observeEvent(s2, avoidConsoleFor(EventLevelKind.Wrn),
                              "none", FALSE), LAMBDA s3 :
                [invokeOriginalFunc(s3, "warn", 1) EXCEPT !.ret = s2.ret])))

\* captureWindowErrorsToTracker(tracker) with the default options.
captureWindowErrorsToTracker(s) ==
    consoleCall([s EXCEPT !.cap.listeners = {"error", "unhandledrejection"},
                          !.cap.hasWindowHandle = TRUE,
                          !.cap.isCaptureCancelled = FALSE],
                "warn", 1)

\* WindowErrCaptureHandle.cancel()
cancelWindowCapture(s) ==
    IF s.cap.isCaptureCancelled THEN [s EXCEPT !.ret = FALSE]
    ELSE
    Bind(consoleCall(s, "warn", 1), LAMBDA s1 :
        IF s1.exc THEN s1
        ELSE [s1 EXCEPT !.cap.listeners = {},
                        !.cap.isCaptureCancelled = TRUE,
                        !.ret = TRUE])

\* errorEventHandler / asyncErrorEventHandler for an event that is not a
\* ResizeObserver loop error: the description is a string, the event object
\* goes into moreInfo.
windowEventHandler(s, type) ==
    IF type \in s.cap.listeners
    THEN observeEvent(s, avoidConsoleFor(EventLevelKind.Err
                                          + EventLevelKind.WindowErrCapture),
                      "data", TRUE)
    ELSE s

\* accumulator_ResizeObserverLoopCommonError.privates
suppressPerPeriodThreshold == 5

observeInitialEvent == FALSE

\* getAccumulator: the current accumulator, or a new one with its timer.
getAccumulator(s) ==
    IF s.cap.accumulatorOpen THEN s
    ELSE [s EXCEPT !.cap.accumulatorOpen = TRUE, !.cap.countEvents = 0]

\* The observeEvent of the accumulator made by createEventAccumulator.
accumulatorObserveEvent(s) ==
    IF s.cap.countEvents = 0
    THEN Bind([s EXCEPT !.cap.countEvents = 1], LAMBDA s1 :
             IF observeInitialEvent
             THEN observeEvent(s1, avoidConsoleFor(EventLevelKind.Err
                                      + EventLevelKind.WindowErrCapture),
                               "data", TRUE)
             ELSE s1)
    ELSE [s EXCEPT !.cap.countEvents = @ + 1]

\* errorEventHandler for the ResizeObserver loop error, with
\* suppressHandlingResizeObserverLoopErrors at its initial value false.
resizeObserverErrorHandler(s) ==
    IF "error" \in s.cap.listeners
    THEN accumulatorObserveEvent(getAccumulator(s))
    ELSE s

\* A timeout that reports as soon as the threshold is reached.
accumulatorTimeoutAtThreshold(s) ==
    Bind([s EXCEPT !.cap.accumulatorOpen = FALSE, !.cap.countEvents = 0],
         LAMBDA s1 :
        IF s.cap.countEvents < suppressPerPeriodThreshold
                                  + (IF observeInitialEvent THEN 1 ELSE 0)
        THEN s1
        ELSE observeEvent(s1, avoidConsoleFor(EventLevelKind.Err
                                  + EventLevelKind.WindowErrCapture),
                          "data", TRUE))

\* The setTimeout callback of getAccumulator, accumulationPeriodMsec after
\* the accumulator was created.
accumulatorTimeout(s) ==
    Bind([s EXCEPT !.cap.accumulatorOpen = FALSE, !.cap.countEvents = 0],
         LAMBDA s1 :
        IF s.cap.countEvents <= suppressPerPeriodThreshold
                                   + (IF observeInitialEvent THEN 1 ELSE 0)
        THEN s1
        ELSE observeEvent(s1, avoidConsoleFor(EventLevelKind.Err
                                  + EventLevelKind.WindowErrCapture),
                          "data", TRUE))

(* ------------------- the listener of status-log.ts -------------------- *)

\* The text of a log entry: it names the operation, the transition and the
\* time (a date entry names no operation).
EntryText(lo) == <<lo.opId, lo.entry>>

\* rebuildFullLogView: the view is the texts of the entries, one per line.
rebuildFullLogView(newLog) == [i \in 1..Len(newLog) |-> EntryText(newLog[i])]

notifyLogEntryEmitted(view, emit) == Append(view, EntryText(emit))

\* The pruning loop of notifyLogEntriesDeleted: entry e is cut from the
\* front when the view starts with its text and a line break; otherwise
\* the loop ends (FLAG_VALIDATE_LOG_PRUNING).
PruneView(view, removedEntries) ==
    LET Cut(k) == \A e \in 1..k : /\ e + 1 <= Len(view)
                                  /\ view[e] = EntryText(removedEntries[e])
        pruned == CHOOSE k \in 0..Len(removedEntries) :
                     /\ Cut(k)
                     /\ \A j \in (k + 1)..Len(removedEntries) : ~Cut(j)
    IN SubSeq(view, pruned + 1, Len(view))

\* A listener that puts the replacement entries behind the view.
notifyLogEntriesDeletedAppending(view, removedEntries, replacementEntries) ==
    PruneView(view, removedEntries) \o rebuildFullLogView(replacementEntries)

notifyLogEntriesDeleted(view, removedEntries, replacementEntries) ==
    rebuildFullLogView(replacementEntries) \o PruneView(view, removedEntries)

notifyLogEntriesRevised(view, newLog) == rebuildFullLogView(newLog)

\* The view after one notification; a notification of the active stack
\* does not concern the log view.
ListenerNotified(view, n) ==
    IF n.kind = "emitted" THEN notifyLogEntryEmitted(view, n.entry)
    ELSE IF n.kind = "deleted"
    THEN notifyLogEntriesDeleted(view, n.removed, n.replacement)
    ELSE IF n.kind = "revised" THEN notifyLogEntriesRevised(view, n.log)
    ELSE view

\* The view after the notifications lo..hi, in the order sent.
RECURSIVE ListenerApply(_, _, _, _)
ListenerApply(view, notes, lo, hi) ==
    IF lo > hi THEN view
    ELSE IF lo = hi THEN ListenerNotified(view, notes[lo])
    ELSE Bind(ListenerApply(view, notes, lo, (lo + hi) \div 2), LAMBDA v :
              ListenerApply(v, notes, (lo + hi) \div 2 + 1, hi))

(* ----------------------------- actions -------------------------------- *)

\* The info values the host passes to startOperation in this model.
CallerInfo == {"none", "error"}

\* The values the host passes to setFailureAndRethrow: an Error, or a
\* value that is not an Error.
ThrownValues == {"error", "data"}

\* The (capture, eventInfo, more) arguments the host passes to observeEvent.
EventInputs == {<<FALSE, "none", FALSE>>, <<TRUE, "error", TRUE>>}

\* Operations the host holds a reference to: those startOperation returned,
\* and events (tracker.activeOps yields them).
CallerOps == {o \in 1..Len(ops) : ops[o].name \in {"op", "event"}}

NewHandle ==
    [isStarted |-> TRUE, isDelayCompleted |-> FALSE, isResolved |-> FALSE,
     finallyPending |-> FALSE]

\* The tracker's fields after a handler has run, and the record of the call.
Commit(s, call, o) ==
    /\ ops' = s.ops
    /\ activeOps' = s.activeOps
    /\ loggedOps' = s.loggedOps
    /\ lastLoggedTs' = s.lastLoggedTs
    /\ trimming' = s.trimming
    /\ nextId' = s.nextId
    /\ last' = [call |-> call, op |-> o, ret |-> s.ret, exc |-> s.exc,
                notes |-> s.notes, console |-> s.console, trims |-> s.trims,
                dropped |-> s.dropped, preOps |-> ops,
                preActive |-> activeOps, preLogged |-> loggedOps,
                thrown |-> s.thrown]
    /\ statusView' = ListenerApply(statusView, s.notes, 1, Len(s.notes))

Init ==
    /\ ops = <<>>
    /\ activeOps = <<>>
    /\ loggedOps = <<>>
    /\ lastLoggedTs = 0
    /\ trimming = FALSE
    /\ nextId = OperationIdStart
    /\ config \in {[logBufferSize |-> c[1], logBufferCleanStep |-> c[2],
                    writeToConsole |-> TRUE,
                    eventDisplayDurationMSec |-> 3000] : c \in Configs}
    /\ handles = <<>>
    /\ now = 0
    /\ today = 1
    /\ calls = 0
    /\ last = [call |-> "init", op |-> 0, ret |-> FALSE, exc |-> FALSE,
               notes |-> <<>>, console |-> <<>>, trims |-> <<>>,
               dropped |-> <<>>, preOps |-> <<>>, preActive |-> <<>>,
               preLogged |-> <<>>, thrown |-> "none"]
    /\ captures = NoCapture
    /\ statusView = rebuildFullLogView(loggedOps)
    /\ util = NoUtil

\* tracker.startOperation(name, ...info)
StartOperation(info) ==
    /\ \E s \in {startOperation(Tracker, "op", info, 0)} :
          Commit(s, "startOperation", Len(ops) + 1)
    /\ calls' = calls + 1
    /\ UNCHANGED <<config, handles, now, today, captures, util>>

\* tracker.observeEvent(kind, name, eventInfo, ...moreInfo)
ObserveEvent(capture, eventInfo, more) ==
    /\ \E s \in {observeEvent(Tracker, capture, eventInfo, more)} :
          /\ Commit(s, "observeEvent", Len(ops) + 1)
          /\ handles' = IF s.exc THEN handles
                        ELSE handles @@ ((Len(ops) + 1) :> NewHandle)
    /\ calls' = calls + 1
    /\ UNCHANGED <<config, now, today, captures, util>>

\* op.addInfo(...data)
AddInfo(o, data) ==
    /\ o \in CallerOps
    /\ \E s \in {addInfo(Tracker, o, data, 0)} : Commit(s, "addInfo", o)
    /\ calls' = calls + 1
    /\ UNCHANGED <<config, handles, now, today, captures, util>>

\* op.setSuccess(...info)
SetSuccess(o, info) ==
    /\ o \in CallerOps
    /\ \E s \in {setCompleted(Tracker, o, TRUE, info, 0)} :
          Commit(s, "setSuccess", o)
    /\ calls' = calls + 1
    /\ UNCHANGED <<config, handles, now, today, captures, util>>

\* op.setFailure(...info)
SetFailure(o, info) ==
    /\ o \in CallerOps
    /\ \E s \in {setCompleted(Tracker, o, FALSE, info, 0)} :
          Commit(s, "setFailure", o)
    /\ calls' = calls + 1
    /\ UNCHANGED <<config, handles, now, today, captures, util>>

\* op.setFailureAndRethrow(error, ...moreInfo)
SetFailureAndRethrow(o, error) ==
    /\ o \in CallerOps
    /\ \E s \in {setFailureAndRethrow(Tracker, o, error, 0)} :
          Commit(s, "setFailureAndRethrow", o)
    /\ calls' = calls + 1
    /\ UNCHANGED <<config, handles, now, today, captures, util>>

\* tracker.dropLogEntriesForCompletedOps()
DropLogEntriesForCompletedOps ==
    /\ \E s \in {dropLogEntriesForCompletedOps(Tracker)} :
          /\ ~s.hung
          /\ Commit(s, "dropLogEntriesForCompletedOps", Len(ops) + 1)
    /\ calls' = calls + 1
    /\ UNCHANGED <<config, handles, now, today, captures, util>>

\* The setTimeout callback of DelayPromise.start, followed by the promise
\* reaction EventDisplayHandle.#complete when this call resolved the promise.
TimerFire(e) ==
    /\ e \in DOMAIN handles
    /\ ~handles[e].isDelayCompleted
    /\ \A h \in DOMAIN handles : ~handles[h].finallyPending
    /\ handles' = [handles EXCEPT ![e].isDelayCompleted = TRUE,
                                  ![e].isResolved = TRUE]
    /\ \E s \in {IF handles[e].isResolved THEN Tracker
                 ELSE removeFromActiveOpsStack(Tracker, e)} :
          Commit(s, "timer", e)
    /\ UNCHANGED <<config, now, today, calls, captures, util>>

\* handle.delay().tryResolve(): resolves the handle's promise ahead of the
\* timer; the reaction #complete is queued as a microtask.
HandleTryResolve(e) ==
    /\ e \in DOMAIN handles
    /\ handles' = [handles EXCEPT ![e].isResolved = TRUE,
                                  ![e].finallyPending = ~handles[e].isResolved]
    /\ \E s \in {[Tracker EXCEPT !.ret = ~handles[e].isResolved]} :
          Commit(s, "tryResolve", e)
    /\ calls' = calls + 1
    /\ UNCHANGED <<config, now, today, captures, util>>

\* The queued promise reaction: EventDisplayHandle.#complete.
RunComplete(e) ==
    /\ e \in DOMAIN handles
    /\ handles[e].finallyPending
    /\ handles' = [handles EXCEPT ![e].finallyPending = FALSE]
    /\ \E s \in {removeFromActiveOpsStack(Tracker, e)} :
          Commit(s, "complete", e)
    /\ UNCHANGED <<config, now, today, calls, captures, util>>

\* Time passes; the calendar day may change.
Tick(newDay) ==
    /\ now < MaxNow
    /\ newDay => today < MaxDay
    /\ \A h \in DOMAIN handles : ~handles[h].finallyPending
    /\ now' = now + 1
    /\ today' = IF newDay THEN today + 1 ELSE today
    /\ UNCHANGED <<ops, activeOps, loggedOps, lastLoggedTs, trimming, nextId,
                   config, handles, calls, last, captures, util, statusView>>

\* The host has calls left to make in this behaviour.
Budget == calls < MaxCalls

Next ==
    \/ \E info \in CallerInfo : Budget /\ StartOperation(info)
    \/ \E ev \in EventInputs : Budget /\ ObserveEvent(ev[1], ev[2], ev[3])
    \/ \E o \in 1..Len(ops) : Budget /\ AddInfo(o, "data")
    \/ \E o \in 1..Len(ops) : Budget /\ SetSuccess(o, "none")
    \/ \E o \in 1..Len(ops) : Budget /\ SetFailure(o, "error")
    \/ \E o \in 1..Len(ops) : \E error \in ThrownValues :
          Budget /\ SetFailureAndRethrow(o, error)
    \/ Budget /\ DropLogEntriesForCompletedOps
    \/ \E e \in 1..Len(ops) : Budget /\ HandleTryResolve(e)
    \/ \E e \in 1..Len(ops) : TimerFire(e)
    \/ \E e \in 1..Len(ops) : RunComplete(e)
    \/ \E newDay \in BOOLEAN : Tick(newDay)

Spec == Init /\ [][Next]_vars

(* ------------------ every value of the configuration ------------------ *)

\* Values of (logBufferSize, logBufferCleanStep, writeToConsole,
\* eventDisplayDurationMSec): console mirroring off, and a negative display
\* duration, besides the defaults of the last two.
ConfigValues ==
    {<<6, 6, TRUE, 3000>>, <<6, 6, FALSE, 3000>>, <<3, 3, TRUE, -1>>}

\* The tracker after construction, with the values the host has stored in
\* tracker.config.
ConfigInit ==
    /\ ops = <<>>
    /\ activeOps = <<>>
    /\ loggedOps = <<>>
    /\ lastLoggedTs = 0
    /\ trimming = FALSE
    /\ nextId = OperationIdStart
    /\ config \in {[logBufferSize |-> c[1], logBufferCleanStep |-> c[2],
                    writeToConsole |-> c[3],
                    eventDisplayDurationMSec |-> c[4]] : c \in ConfigValues}
    /\ handles = <<>>
    /\ now = 0
    /\ today = 1
    /\ calls = 0
    /\ last = [call |-> "init", op |-> 0, ret |-> FALSE, exc |-> FALSE,
               notes |-> <<>>, console |-> <<>>, trims |-> <<>>,
               dropped |-> <<>>, preOps |-> <<>>, preActive |-> <<>>,
               preLogged |-> <<>>, thrown |-> "none"]
    /\ captures = NoCapture
    /\ statusView = rebuildFullLogView(loggedOps)
    /\ util = NoUtil

SpecConfig == ConfigInit /\ [][Next]_vars

(* ---------------------- a long-running session ----------------------- *)

\* The tracker with logBufferSize = logBufferCleanStep = 6 late in a
\* session: the host started one container, which is still running, and
\* then observed events one after the other, each after the timer of the
\* one before. From the third event on every event leaves the same buffer
\* behind (the date, the end line of the event, the four lines of the last
\* trim) with the ids advanced by three; this is the state after event
\* number (OperationIdMax - 5) / 3, with only the operation that is still
\* referenced kept in ops.
RotationInit ==
    /\ now = 0
    /\ ops = <<NewOperation([ops |-> <<>>],
                            [idNum |-> OperationIdStart,
                             idStr |-> OperationIdStart + 1],
                            "op", 0, TRUE, FALSE, "none")>>
    /\ activeOps = <<1>>
    /\ loggedOps =
          <<[type |-> "Date", opId |-> 0, entry |-> formatDateLogEntry(1)],
            [type |-> "OpEnd", opId |-> OperationIdMax - 3,
             entry |-> <<"ATTN", 0>>],
            [type |-> "OpStart", opId |-> OperationIdMax - 1,
             entry |-> <<"STRT", 0>>],
            [type |-> "OpInfo", opId |-> OperationIdMax - 1,
             entry |-> <<"INFO", 0>>],
            [type |-> "OpEnd", opId |-> OperationIdMax - 1,
             entry |-> <<"INFO", 0>>],
            [type |-> "OpEnd", opId |-> OperationIdMax - 1,
             entry |-> <<"SUCS", 0>>]>>
    /\ lastLoggedTs = 1
    /\ trimming = FALSE
    /\ nextId = OperationIdMax - 1
    /\ config = [logBufferSize |-> 6, logBufferCleanStep |-> 6,
                 writeToConsole |-> TRUE,
                 eventDisplayDurationMSec |-> 3000]
    /\ handles = <<>>
    /\ today = 1
    /\ calls = 0
    /\ last = [call |-> "init", op |-> 0, ret |-> FALSE, exc |-> FALSE,
               notes |-> <<>>, console |-> <<>>, trims |-> <<>>,
               dropped |-> <<>>, preOps |-> <<>>, preActive |-> <<>>,
               preLogged |-> <<>>, thrown |-> "none"]
    /\ captures = NoCapture
    /\ statusView = rebuildFullLogView(loggedOps)
    /\ util = NoUtil

SpecRotation == RotationInit /\ [][Next]_vars

(* ------------------------ completion signals -------------------------- *)

\* op.completion
GetCompletion(o) ==
    /\ o \in CallerOps
    /\ \E s \in {getCompletion(Tracker, o)} : Commit(s, "completion", o)
    /\ calls' = calls + 1
    /\ UNCHANGED <<config, handles, now, today, captures, util>>

CompletionNext ==
    \/ Next
    \/ \E o \in 1..Len(ops) : Budget /\ GetCompletion(o)

SpecCompletion == Init /\ [][CompletionNext]_vars

(* --------------------- calls of the internal API ---------------------- *)

\* op.removeFromActiveOpsStack(), called on an operation the host holds.
RemoveFromActiveOpsStack(o) ==
    /\ o \in CallerOps
    /\ \E s \in {removeFromActiveOpsStack(Tracker, o)} :
          Commit(s, "removeFromActiveOpsStack", o)
    /\ calls' = calls + 1
    /\ UNCHANGED <<config, handles, now, today, captures, util>>

InternalNext ==
    \/ Next
    \/ \E o \in 1..Len(ops) : Budget /\ RemoveFromActiveOpsStack(o)

SpecInternal == Init /\ [][InternalNext]_vars

(* ------------------- the scenario of the specification ---------------- *)

\* Number of calls the host makes in one behaviour of the scenario.
ScenarioCalls == 5

\* logBufferSize = 10, logBufferCleanStep = 4.
ScenarioConfig == <<10, 4>>

\* The tracker constructed with the scenario's configuration; the clock
\* stays on one calendar day.
ScenarioInit ==
    /\ ops = <<>>
    /\ activeOps = <<>>
    /\ loggedOps = <<>>
    /\ lastLoggedTs = 0
    /\ trimming = FALSE
    /\ nextId = OperationIdStart
    /\ config = [logBufferSize |-> ScenarioConfig[1],
                 logBufferCleanStep |-> ScenarioConfig[2],
                 writeToConsole |-> TRUE,
                 eventDisplayDurationMSec |-> 3000]
    /\ handles = <<>>
    /\ now = 0
    /\ today = 1
    /\ calls = 0
    /\ last = [call |-> "init", op |-> 0, ret |-> FALSE, exc |-> FALSE,
               notes |-> <<>>, console |-> <<>>, trims |-> <<>>,
               dropped |-> <<>>, preOps |-> <<>>, preActive |-> <<>>,
               preLogged |-> <<>>, thrown |-> "none"]
    /\ captures = NoCapture
    /\ statusView = rebuildFullLogView(loggedOps)
    /\ util = NoUtil

ScenarioNext ==
    \/ \E info \in CallerInfo : calls < ScenarioCalls /\ StartOperation(info)
    \/ \E o \in 1..Len(ops) : calls < ScenarioCalls /\ AddInfo(o, "data")
    \/ \E o \in 1..Len(ops) : calls < ScenarioCalls /\ SetSuccess(o, "none")
    \/ calls < ScenarioCalls /\ DropLogEntriesForCompletedOps

SpecScenario == ScenarioInit /\ [][ScenarioNext]_vars

(* ------------------- the tracker with capture bridges ----------------- *)

\* Number of calls the host makes in one behaviour with capture bridges.
MaxCaptureCalls == 4

\* Number of ResizeObserver loop errors the window dispatches in one
\* behaviour, and at most in one accumulation period.
MaxOccurrences == 6

CaptureConfigs == {<<10, 4>>, <<6, 6>>}

\* The (fn, args.length) of the console calls the host makes.
ConsoleCallInputs ==
    {<<"error", 1>>, <<"warn", 1>>, <<"log", 0>>, <<"info", 1>>}

\* The console functions a third party replaces.
ForeignFuncs == {"log", "warn"}

WindowEventTypes == {"error", "unhandledrejection"}

\* The tracker's fields at the start of a call that involves the bridges.
CaptureTracker ==
    [Tracker EXCEPT !.cap.called = <<>>, !.cap.printed = <<>>,
                    !.cap.forwarded = <<>>]

\* The state after a handler that involves the bridges; every event it
\* created has its display handle and timer.
CommitCapture(s, call, o) ==
    /\ Commit(s, call, o)
    /\ captures' = s.cap
    /\ handles' =
          LET new == {e \in (Len(ops) + 1)..Len(s.ops) : ~s.ops[e].isContainer}
          IN IF new = {} THEN handles
             ELSE handles @@ [e \in new |-> NewHandle]
    /\ calls' = calls + 1
    /\ UNCHANGED <<config, now, today, util>>

CaptureInit ==
    /\ ops = <<>>
    /\ activeOps = <<>>
    /\ loggedOps = <<>>
    /\ lastLoggedTs = 0
    /\ trimming = FALSE
    /\ nextId = OperationIdStart
    /\ config \in {[logBufferSize |-> c[1], logBufferCleanStep |-> c[2],
                    writeToConsole |-> TRUE,
                    eventDisplayDurationMSec |-> 3000] : c \in CaptureConfigs}
    /\ handles = <<>>
    /\ now = 0
    /\ today = 1
    /\ calls = 0
    /\ last = [call |-> "init", op |-> 0, ret |-> FALSE, exc |-> FALSE,
               notes |-> <<>>, console |-> <<>>, trims |-> <<>>,
               dropped |-> <<>>, preOps |-> <<>>, preActive |-> <<>>,
               preLogged |-> <<>>, thrown |-> "none"]
    /\ captures = NoCapture
    /\ statusView = rebuildFullLogView(loggedOps)
    /\ util = NoUtil

\* captureConsoleToTracker(tracker), once, on an untouched console.
CaptureConsoleToTracker ==
    /\ ~captures.hasConsoleHandle
    /\ \E s \in {captureConsoleToTracker(CaptureTracker)} :
          CommitCapture(s, "captureConsoleToTracker", 0)

\* captureWindowErrorsToTracker(tracker), once.
CaptureWindowErrorsToTracker ==
    /\ ~captures.hasWindowHandle
    /\ \E s \in {captureWindowErrorsToTracker(CaptureTracker)} :
          CommitCapture(s, "captureWindowErrorsToTracker", 0)

\* The host calls console[fn](...args).
ConsoleCall(fn, argc) ==
    \E s \in {consoleCall([CaptureTracker EXCEPT !.cap.called =
                              <<fn, argc, captures.consoleFn[fn]>>],
                          fn, argc)} :
        CommitCapture(s, "console", Len(ops) + 1)

\* A third party stores its own function in console[fn] while the
\* redirection is in place.
ForeignRedirect(fn) ==
    /\ captures.hasConsoleHandle
    /\ ~captures.isRedirectCancelled
    /\ captures.consoleFn[fn] = "redirect"
    /\ \E s \in {[CaptureTracker EXCEPT !.cap.consoleFn[fn] = "foreign"]} :
          CommitCapture(s, "foreignRedirect", 0)

\* consoleCaptureHandle.cancel()
CancelConsoleCapture ==
    /\ captures.hasConsoleHandle
    /\ \E s \in {cancelConsoleCapture(CaptureTracker)} :
          CommitCapture(s, "cancelConsoleCapture", 0)

\* windowErrCaptureHandle.cancel()
CancelWindowCapture ==
    /\ captures.hasWindowHandle
    /\ \E s \in {cancelWindowCapture(CaptureTracker)} :
          CommitCapture(s, "cancelWindowCapture", 0)

\* The window dispatches an "error" or "unhandledrejection" event.
WindowEvent(type) ==
    /\ captures.hasWindowHandle
    /\ \E s \in {windowEventHandler(CaptureTracker, type)} :
          CommitCapture(s, "windowEvent", Len(ops) + 1)

\* The window dispatches the ResizeObserver loop error.
ResizeObserverError ==
    /\ captures.hasWindowHandle
    /\ captures.countEvents < MaxOccurrences
    /\ \E s \in {resizeObserverErrorHandler(CaptureTracker)} :
          CommitCapture(s, "resizeObserverError", 0)

\* The accumulation period of the current accumulator ends.
AccumulatorTimeout ==
    /\ captures.accumulatorOpen
    /\ \E s \in {accumulatorTimeout(CaptureTracker)} :
          CommitCapture(s, "accumulatorTimeout", Len(ops) + 1)

CaptureBudget == calls < MaxCaptureCalls

CaptureNext ==
    \/ CaptureBudget /\ CaptureConsoleToTracker
    \/ CaptureBudget /\ CaptureWindowErrorsToTracker
    \/ \E c \in ConsoleCallInputs : CaptureBudget /\ ConsoleCall(c[1], c[2])
    \/ \E fn \in ForeignFuncs : CaptureBudget /\ ForeignRedirect(fn)
    \/ CaptureBudget /\ CancelConsoleCapture
    \/ CaptureBudget /\ CancelWindowCapture
    \/ \E type \in WindowEventTypes : CaptureBudget /\ WindowEvent(type)
    \/ \E info \in CallerInfo : CaptureBudget /\ StartOperation(info)
    \/ calls < MaxCaptureCalls + MaxOccurrences /\ ResizeObserverError
    \/ calls < MaxCaptureCalls + MaxOccurrences + 1 /\ AccumulatorTimeout

SpecCapture == CaptureInit /\ [][CaptureNext]_vars

(* ------------------------------ properties ---------------------------- *)

\* The outcome of the operation has been decided.
OutcomeDecided(op) == op.isSucceeded \/ op.isFailed

Range(seq) == {seq[i] : i \in 1..Len(seq)}

\* The host has only called startOperation, setSuccess and setFailure: every
\* operation is one it started or a trim the tracker started, and no
\* operation has received addInfo data.
OnlyStartsAndCompletions ==
    \A o \in 1..Len(ops) :
        /\ ops[o].name \in {"op", "Trimming Log Buffer"}
        /\ ops[o].name = "op" => \A i \in 1..Len(ops[o].info) : ops[o].info[i] # "data"

\* C1: for sequences of startOperation and setSuccess/setFailure calls only,
\* the active stack is empty once every started container is completed.
C1_StackEmptyWhenAllCompleted ==
    (/\ OnlyStartsAndCompletions
     /\ \A o \in 1..Len(ops) : ops[o].isContainer => OutcomeDecided(ops[o]))
    => activeOps = <<>>

\* The operations, in order of creation, that are uncompleted containers or
\* events whose display timer has not fired.
OpenContainersAndLiveEvents ==
    SelectSeq([i \in 1..Len(ops) |-> i],
              LAMBDA o : IF ops[o].isContainer THEN ~OutcomeDecided(ops[o])
                         ELSE o \in DOMAIN handles /\ ~handles[o].isDelayCompleted)

\* C2: in every reachable state the active stack is exactly the uncompleted
\* containers and the events whose display timer has not yet fired, in order
\* of creation.
C2_StackIsOpenContainersAndLiveEvents == activeOps = OpenContainersAndLiveEvents

CompletionCalls == {"setSuccess", "setFailure"}

\* C3: success and failure exclude each other; a completed operation keeps
\* its outcome, end timestamp and duration through every later call; a
\* completion call on a completed operation returns false and changes
\* nothing (no log line, no notification); a completion call on a pending
\* operation returns true and decides the outcome it names.
C3_OutcomeSetOnce ==
    /\ \A o \in 1..Len(ops) : ~(ops[o].isSucceeded /\ ops[o].isFailed)
    /\ \A o \in 1..Len(last.preOps) :
          OutcomeDecided(last.preOps[o]) =>
              /\ ops[o].isSucceeded = last.preOps[o].isSucceeded
              /\ ops[o].isFailed = last.preOps[o].isFailed
              /\ ops[o].endTimestamp = last.preOps[o].endTimestamp
              /\ ops[o].stopMSec = last.preOps[o].stopMSec
              /\ getDurationMSec(ops[o]) = last.preOps[o].stopMSec - ops[o].startMSec
    /\ last.call \in CompletionCalls =>
          IF OutcomeDecided(last.preOps[last.op])
          THEN /\ last.ret = FALSE
               /\ ops = last.preOps
               /\ activeOps = last.preActive
               /\ loggedOps = last.preLogged
               /\ last.notes = <<>>
               /\ last.console = <<>>
          ELSE /\ last.ret = TRUE
               /\ ops[last.op].isSucceeded = (last.call = "setSuccess")
               /\ ops[last.op].isFailed = (last.call = "setFailure")

\* setSuccess has been called on a failed operation after the clock advanced.
C3_Witness ==
    /\ last.call = "setSuccess"
    /\ last.preOps[last.op].isFailed
    /\ now > ops[last.op].stopMSec

\* C4: the nesting depth of an operation is 0 without a parent and the
\* parent's depth plus 1 otherwise, and neither the depth nor the parent of
\* an operation changes in any later call.
C4_NestDepthFixed ==
    /\ \A o \in 1..Len(ops) :
          ops[o].nestDepth = IF ops[o].parent = 0 THEN 0
                             ELSE ops[ops[o].parent].nestDepth + 1
    /\ \A o \in 1..Len(last.preOps) :
          /\ ops[o].nestDepth = last.preOps[o].nestDepth
          /\ ops[o].parent = last.preOps[o].parent

\* A pending nested operation whose parent has completed before it.
C4_Witness ==
    \E o \in 1..Len(ops) :
        /\ ops[o].name = "op"
        /\ ops[o].nestDepth = 1
        /\ ops[ops[o].parent].name = "op"
        /\ ~OutcomeDecided(ops[o])
        /\ OutcomeDecided(ops[ops[o].parent])

CreationCalls == {"startOperation", "observeEvent",
                  "dropLogEntriesForCompletedOps"}

\* C5: the parent of an operation or event created by a call is the topmost
\* container of the active stack as it was when the call was made, events on
\* the stack being skipped; without a container on the stack it has no parent.
C5_ParentIsTopContainer ==
    last.call \in CreationCalls =>
        LET stack == last.preActive
            containers == {i \in 1..Len(stack) : last.preOps[stack[i]].isContainer}
            p == ops[last.op].parent
        IN IF containers = {} THEN p = 0
           ELSE \E i \in containers : /\ stack[i] = p
                                      /\ \A j \in containers : j <= i

\* An operation was started while an event was on top of a container.
C5_Witness ==
    /\ last.call = "startOperation"
    /\ last.preActive # <<>>
    /\ ~last.preOps[last.preActive[Len(last.preActive)]].isContainer
    /\ ops[last.op].parent # 0

\* C6: in every reachable state the log buffer holds at most logBufferSize
\* entries.
C6_BufferWithinSize == Len(loggedOps) <= config.logBufferSize

DeletedNotes == SelectSeq(last.notes, LAMBDA n : n.kind = "deleted")

\* C8: an addInfo call, which logs one line, on a buffer that holds
\* logBufferSize entries causes exactly one trim: one notifyLogEntriesDeleted,
\* the logBufferCleanStep oldest entries removed; with logBufferSize = 10,
\* logBufferCleanStep = 4 and the 11 lines on one calendar day, the buffer
\* holds 7 entries afterwards.
C8_ExactlyOneTrim ==
    (last.call = "addInfo" /\ Len(last.preLogged) = config.logBufferSize) =>
        /\ Len(last.trims) = 1
        /\ Len(DeletedNotes) = 1
        /\ last.trims[1].removed =
               SubSeq(last.preLogged, 1, config.logBufferCleanStep)
        /\ Len(loggedOps) = 7

DateIndices(entries) == {i \in 1..Len(entries) : entries[i].type = "Date"}

C10_DropKeepsActiveEntries ==
    last.call = "dropLogEntriesForCompletedOps" =>
        \A i \in 1..Len(last.dropped) :
            \A o \in Range(last.preActive) \cup {last.op} :
                ops[o].operationIdStr # last.dropped[i].opId

\* The operations that were on the active stack at some moment of the last
\* call: those on it when the call was made and those the call created.
ActiveDuringLastCall ==
    Range(last.preActive) \cup ((1..Len(ops)) \ (1..Len(last.preOps)))

\* C11: when dropLogEntriesForCompletedOps has returned, every entry left in
\* the buffer that is not a date marker belongs to an operation that was on
\* the active stack during the call.
C11_DropRemovesAllCompleted ==
    last.call = "dropLogEntriesForCompletedOps" =>
        \A i \in 1..Len(loggedOps) :
            loggedOps[i].type # "Date" =>
                \E o \in ActiveDuringLastCall :
                    ops[o].operationIdStr = loggedOps[i].opId

\* The notifyActiveOpsStackUpdated notifications of the last call, in order.
StackNotes == SelectSeq(last.notes, LAMBDA n : n.kind = "stack")

\* Stack b is stack a after one push or after the removal of one entry.
OneStackChange(a, b) ==
    \/ Len(b) = Len(a) + 1 /\ SubSeq(b, 1, Len(a)) = a
    \/ \E i \in 1..Len(a) :
          b = SubSeq(a, 1, i - 1) \o SubSeq(a, i + 1, Len(a))

\* C12: the stacks notified during a call form a chain from the stack before
\* the call to the stack after it in which each notified stack is the
\* previous one after exactly one push or one removal (so a call that leaves
\* the stack alone notifies nothing); a startOperation without a trim
\* notifies once, the stack with the new operation on top, and the completion
\* of a pending container without a trim notifies once, the stack without it:
\* [A], [A,B], [A], [] for start A, start B, B.setSuccess, A.setSuccess.
C12_StackChangeNotified ==
    LET n == StackNotes
        stackAt(k) == IF k = 0 THEN last.preActive ELSE n[k].stack
    IN /\ stackAt(Len(n)) = activeOps
       /\ \A k \in 1..Len(n) : OneStackChange(stackAt(k - 1), stackAt(k))
       /\ (last.call = "startOperation" /\ last.trims = <<>>) =>
              /\ Len(n) = 1
              /\ n[1].stack = Append(last.preActive, last.op)
       /\ (/\ last.call \in CompletionCalls
           /\ last.trims = <<>>
           /\ ~OutcomeDecided(last.preOps[last.op])
           /\ last.op \in Range(last.preActive)) =>
              /\ Len(n) = 1
              /\ n[1].stack = SelectSeq(last.preActive, LAMBDA x : x # last.op)

\* The last step of start A, start B (child of A), B.setSuccess,
\* A.setSuccess: the empty stack is notified.
C12_Witness ==
    /\ Len(ops) = 2
    /\ ops[2].parent = 1
    /\ last.call = "setSuccess"
    /\ last.op = 1
    /\ last.preOps[2].isSucceeded
    /\ last.preActive = <<1>>
    /\ Len(StackNotes) = 1
    /\ StackNotes[1].stack = <<>>

\* The log lines the last call emitted for operation o, as monikers, in
\* order (notifyLogEntryEmitted is issued for every line pushed).
LinesOf(o) ==
    LET own == SelectSeq(last.notes,
                         LAMBDA n : /\ n.kind = "emitted"
                                    /\ n.entry.opId = ops[o].operationIdStr)
    IN [i \in 1..Len(own) |-> own[i].entry.entry[1]]

\* The operation log lines of the buffer (date markers left out), each as
\* <<moniker, operation>>.
BufferLines ==
    LET lines == SelectSeq(loggedOps, LAMBDA e : e.type # "Date")
    IN [i \in 1..Len(lines) |->
           <<lines[i].entry[1],
             CHOOSE o \in 1..Len(ops) : ops[o].operationIdStr = lines[i].opId>>]

\* start A, start B (child of A), B.setSuccess, A.setSuccess have been
\* called, without info, and nothing else.
NestedPairScenario ==
    /\ calls = 4
    /\ Len(ops) = 2
    /\ ops[2].parent = 1
    /\ ops[1].info = <<>> /\ ops[2].info = <<>>
    /\ ops[1].isSucceeded /\ ops[2].isSucceeded
    /\ last.call = "setSuccess" /\ last.op = 1
    /\ ~OutcomeDecided(last.preOps[1])

EntriesOf(o) ==
    LET own == SelectSeq(last.notes,
                         LAMBDA n : /\ n.kind = "emitted"
                                    /\ n.entry.opId = ops[o].operationIdStr)
    IN [i \in 1..Len(own) |-> own[i].entry]

\* observeEvent was called with a severity and a name and nothing else.
EventWithoutInfo ==
    /\ last.call = "observeEvent"
    /\ ops[last.op].info = <<>>

\* C14 (as amended): observeEvent called with a severity and a name and no
\* further info emits exactly two operation log lines before it returns, an
\* ATTN line of type OpStart and an ATTN line of type OpEnd; when the call
\* does not trim, they are the last two entries of the buffer, behind what
\* was there and a date marker if the day has changed.
C14_EventLines ==
    EventWithoutInfo =>
        LET e == EntriesOf(last.op)
        IN /\ Len(e) = 2
           /\ e[1].type = "OpStart" /\ e[1].entry[1] = "ATTN"
           /\ e[2].type = "OpEnd" /\ e[2].entry[1] = "ATTN"
           /\ last.trims = <<>> =>
                 \/ loggedOps = last.preLogged \o e
                 \/ /\ Len(loggedOps) = Len(last.preLogged) + 3
                    /\ loggedOps[Len(last.preLogged) + 1].type = "Date"
                    /\ SubSeq(loggedOps, 1, Len(last.preLogged)) = last.preLogged
                    /\ SubSeq(loggedOps, Len(loggedOps) - 1, Len(loggedOps)) = e

\* C14 (as stated): such a call appends exactly one operation log line.
C14_OneEventLine == EventWithoutInfo => Len(EntriesOf(last.op)) = 1

\* An event without info was observed while the buffer already held lines
\* of the same day.
C14_Witness ==
    /\ EventWithoutInfo
    /\ last.trims = <<>>
    /\ last.preLogged # <<>>
    /\ loggedOps = last.preLogged \o EntriesOf(last.op)

\* C15: an observed event is on the active stack for as long as its display
\* timer has not fired, and the firing of the timer removes it and issues
\* one notifyActiveOpsStackUpdated with a stack that does not contain it.
C15_EventStaysUntilTimer ==
    /\ \A e \in DOMAIN handles :
          ~handles[e].isDelayCompleted => e \in Range(activeOps)
    /\ last.call = "timer" =>
          /\ last.op \in Range(last.preActive)
          /\ last.op \notin Range(activeOps)
          /\ Len(StackNotes) = 1
          /\ last.op \notin Range(StackNotes[1].stack)

\* C16: a step that takes an event off the active stack is the firing of
\* that event's timer.
C16_EventRemovedOnlyByTimer ==
    [][\A e \in DOMAIN handles :
          (e \in Range(activeOps) /\ e \notin Range(activeOps')) =>
              (~handles[e].isDelayCompleted /\ handles'[e].isDelayCompleted)]_vars

\* C17: every event is completed as succeeded, not failed, and has an end
\* timestamp, from the moment observeEvent returns on, whatever was observed.
C17_EventCreatedSucceeded ==
    /\ \A o \in 1..Len(ops) :
          ~ops[o].isContainer =>
              /\ ops[o].isSucceeded
              /\ ~ops[o].isFailed
              /\ ops[o].endTimestamp # -1
    /\ last.call = "observeEvent" =>
          /\ ~last.exc
          /\ ~ops[last.op].isContainer
          /\ ops[last.op].endTimestamp >= ops[last.op].startTimestamp

\* An event that carries an Error has been observed.
C17_Witness ==
    /\ last.call = "observeEvent"
    /\ "error" \in Range(ops[last.op].info)
    /\ ops[last.op].isSucceeded

\* The host's last call was console[fn](...) on a redirected function.
CapturedCall ==
    /\ last.call = "console"
    /\ captures.called[3] = "redirect"

\* The event kind the capture records for a console function: the
\* ConsoleCapture tag (512) plus Err (4), Wrn (2), Suc (8) or Inf (1).
CaptureKindOf(fn) ==
    512 + (CASE fn = "error" -> 4 [] fn = "warn" -> 2 [] fn = "log" -> 8
             [] OTHER -> 1)

\* The operations constructed during the last call.
NewOps == (Len(last.preOps) + 1)..Len(ops)

\* C18: a call of a captured console function records exactly one event,
\* tagged as console capture with the severity of the function, and invokes
\* the original function exactly once with the same arguments.
C18_CapturedCallForwardedOnce ==
    CapturedCall =>
        /\ ~last.exc
        /\ Len(captures.forwarded) = 1
        /\ captures.forwarded[1].fn = captures.called[1]
        /\ captures.forwarded[1].kind = CaptureKindOf(captures.called[1])
        /\ {e \in NewOps : ~ops[e].isContainer} = {captures.forwarded[1].op}
        /\ ops[captures.forwarded[1].op].isSucceeded
        /\ captures.printed = <<<<captures.called[1], captures.called[2]>>>>

\* console.error("x") has been captured: one Err event with the capture tag,
\* and the original console.error has printed "x".
C18_Witness ==
    /\ CapturedCall
    /\ captures.called[1] = "error"
    /\ captures.forwarded[1].kind = 516
    /\ captures.printed = <<<<"error", 1>>>>

\* C19: while console capture is installed, a tracker operation produces no
\* capture-tagged event, and a captured console call produces no console
\* write by the tracker.
C19_MirrorNeverReenters ==
    /\ (/\ captures.hasConsoleHandle
        /\ ~captures.isRedirectCancelled
        /\ last.call \in {"startOperation", "windowEvent"}) =>
           /\ captures.virtualConsole = "snapshot"
           /\ \A e \in NewOps : ~ops[e].avoidConsole
    /\ CapturedCall => last.console = <<>>

\* The step is a cancel() call on the named handle.
CancelStep(call) == last'.call = call /\ calls' = calls + 1

\* C20: cancel() of either bridge is idempotent. The first call returns
\* true and stops the capture: the console functions are the originals
\* again, the window listeners are removed. Every later call returns false
\* and changes nothing. isCancelled() is true exactly from the first
\* successful cancel on.
C20_CancelIdempotent ==
    [][/\ (CancelStep("cancelConsoleCapture")
             /\ ~captures.isRedirectCancelled) =>
              /\ last'.ret
              /\ ~last'.exc
              /\ captures'.isRedirectCancelled
              /\ \A fn \in ConsoleFuncNames :
                    captures'.consoleFn[fn] = "original"
       /\ (CancelStep("cancelWindowCapture")
             /\ ~captures.isCaptureCancelled) =>
              /\ last'.ret
              /\ ~last'.exc
              /\ captures'.isCaptureCancelled
              /\ captures'.listeners = {}
       /\ (CancelStep("cancelConsoleCapture")
             /\ captures.isRedirectCancelled) =>
              /\ ~last'.ret
              /\ ops' = ops /\ loggedOps' = loggedOps
              /\ captures'.consoleFn = captures.consoleFn
              /\ captures'.isRedirectCancelled
       /\ (CancelStep("cancelWindowCapture")
             /\ captures.isCaptureCancelled) =>
              /\ ~last'.ret
              /\ ops' = ops /\ loggedOps' = loggedOps
              /\ captures'.listeners = captures.listeners
              /\ captures'.isCaptureCancelled
       /\ (~captures.isRedirectCancelled /\ captures'.isRedirectCancelled) =>
              CancelStep("cancelConsoleCapture") /\ last'.ret
       /\ (~captures.isCaptureCancelled /\ captures'.isCaptureCancelled) =>
              CancelStep("cancelWindowCapture") /\ last'.ret
       /\ captures.isRedirectCancelled => captures'.isRedirectCancelled
       /\ captures.isCaptureCancelled => captures'.isCaptureCancelled]_vars

\* Some console function is no longer the redirect function of the capture.
RedirectMismatch ==
    /\ captures.hasConsoleHandle
    /\ ~captures.isRedirectCancelled
    /\ \E fn \in ConsoleFuncNames : captures.consoleFn[fn] = "foreign"

\* C21: when the console was redirected again after the capture was
\* installed, cancel() of the capture does not throw and reports the
\* mismatch as a warning: a warning event beyond the end-of-capture message,
\* or a warning printed by an original console function.
C21_MismatchWarnedNotThrown ==
    [][(CancelStep("cancelConsoleCapture") /\ RedirectMismatch) =>
          /\ ~last'.exc
          /\ \/ \E i \in 1..Len(captures'.printed) :
                   captures'.printed[i][1] = "warn"
                   /\ \A j \in 1..Len(captures'.forwarded) :
                         captures'.forwarded[j].fn # "warn"
             \/ Len(ops') >= Len(ops) + 2]_vars

\* The events constructed by the step.
StepEvents == {e \in (Len(ops) + 1)..Len(ops') : ~ops'[e].isContainer}

C23_TrimNotReentered ==
    /\ \A i \in 1..Len(last.trims) : last.trims[i].depth = 1
    /\ ~trimming

\* The log entries of the operation emitted during the last call.
EmittedFor(o) ==
    {i \in 1..Len(last.notes) :
        /\ last.notes[i].kind = "emitted"
        /\ last.notes[i].entry.opId = ops[o].operationIdStr}

\* C24: setFailureAndRethrow ends by throwing the error it was given, and
\* before that has recorded it: the operation is failed, the error is in
\* its info, and the call has logged a line for the operation.
C24_RecordsThenRethrows ==
    last.call = "setFailureAndRethrow" =>
        /\ last.exc
        /\ last.thrown = "given"
        /\ ops[last.op].isFailed
        /\ Len(ops[last.op].info) = Len(last.preOps[last.op].info) + 1
        /\ EmittedFor(last.op) # {}

\* The last call asked for the removal of an operation that was not on the
\* active stack.
RemovalOfAbsent ==
    /\ last.call = "removeFromActiveOpsStack"
    /\ last.op \notin Range(last.preActive)

\* C25: the removal of an operation that is not on the active stack does
\* not throw, leaves the stack unchanged, issues no stack notification and
\* reports the misuse with a console error.
C25_AbsentRemovalReported ==
    RemovalOfAbsent =>
        /\ ~last.exc
        /\ activeOps = last.preActive
        /\ StackNotes = <<>>
        /\ Len(last.console) = 1
        /\ last.console[1][1] = "error"

\* An absent operation was asked to be removed from a stack that is not
\* empty.
C25_Witness ==
    /\ RemovalOfAbsent
    /\ last.preActive # <<>>
    /\ last.console # <<>>

\* C26: startOperation, observeEvent, addInfo, setSuccess, setFailure and
\* dropLogEntriesForCompletedOps return normally, whatever the configuration
\* holds.
C26_OnlyRethrowRaises ==
    last.call \in {"startOperation", "observeEvent", "addInfo", "setSuccess",
                   "setFailure", "dropLogEntriesForCompletedOps"}
        => ~last.exc

\* C27: the completion promise of an operation exists only once it was
\* requested, every request returns the one promise, and that promise is
\* resolved exactly when the operation is completed; it is never rejected.
C27_CompletionSignal ==
    /\ \A o \in 1..Len(ops) :
          /\ ops[o].completion \in {"null", "pending", "resolved"}
          /\ ops[o].completion = "null" <=> ops[o].completionId = 0
          /\ ops[o].completionId <= 1
          /\ ops[o].completion # "null" =>
                (ops[o].completion = "resolved" <=> OutcomeDecided(ops[o]))
    /\ last.call = "completion" =>
          /\ ops[last.op].completion # "null"
          /\ last.preOps[last.op].completion # "null" => ops = last.preOps
    /\ \A o \in 1..Len(last.preOps) :
          (last.call # "completion" \/ last.op # o) =>
              ops[o].completionId = last.preOps[o].completionId

\* A promise requested before the completion has been resolved by it.
C27_Witness ==
    /\ last.call \in {"setSuccess", "setFailure"}
    /\ last.preOps[last.op].completion = "pending"
    /\ ops[last.op].completion = "resolved"

\* The types of the log entries of the operation emitted during the last
\* call, in the order of emission.
EmittedTypesFor(o) ==
    LET own == SelectSeq(last.notes, LAMBDA n :
                   n.kind = "emitted"
                   /\ n.entry.opId = ops[o].operationIdStr)
    IN [i \in 1..Len(own) |-> own[i].entry.type]

\* C28: an addInfo call appends its payload to the info of the operation
\* and exactly one log entry of type OpInfo with the id of the operation,
\* and no entry of type OpStart or OpEnd.
C28_AddInfoLogsOpInfo ==
    last.call = "addInfo" =>
        /\ Len(ops[last.op].info) = Len(last.preOps[last.op].info) + 1
        /\ Cardinality({i \in DOMAIN EmittedTypesFor(last.op) :
                           EmittedTypesFor(last.op)[i] = "OpInfo"}) = 1
        /\ \A i \in DOMAIN EmittedTypesFor(last.op) :
              EmittedTypesFor(last.op)[i] \notin {"OpStart", "OpEnd"}

\* The info values the last call attached to its operation.
AttachedInfo ==
    LET before == IF last.op <= Len(last.preOps)
                  THEN Len(last.preOps[last.op].info) ELSE 0
    IN {ops[last.op].info[i] : i \in (before + 1)..Len(ops[last.op].info)}

\* The last call attached info that shallowly contains an Error.
AttachedError ==
    /\ last.call \in {"startOperation", "observeEvent", "addInfo",
                      "setSuccess", "setFailure", "setFailureAndRethrow"}
    /\ "error" \in AttachedInfo

\* The last call wrote to console.error.
ErrorMirrored == \E i \in 1..Len(last.console) : last.console[i][1] = "error"

\* C29: when the attached info shallowly contains an Error, the call logs
\* the text line of the operation and one OpErrNote entry besides, and the
\* errors go to console.error exactly when writeToConsole is on and the
\* operation does not suppress mirroring.
C29_ErrorNoteAndMirror ==
    AttachedError =>
        /\ Cardinality({i \in DOMAIN EmittedTypesFor(last.op) :
                           EmittedTypesFor(last.op)[i] = "OpErrNote"}) = 1
        /\ \E i \in DOMAIN EmittedTypesFor(last.op) :
              EmittedTypesFor(last.op)[i] # "OpErrNote"
        /\ (config.writeToConsole /\ ~ops[last.op].avoidConsole)
              => ErrorMirrored
        /\ (~(config.writeToConsole /\ ~ops[last.op].avoidConsole)
              /\ last.trims = <<>>) => ~ErrorMirrored

\* C30: no two operations of the tracker have the same operationIdStr.
C30_IdsUnique ==
    \A o1, o2 \in 1..Len(ops) :
        ops[o1].operationIdStr = ops[o2].operationIdStr => o1 = o2

(* ------------- RotatingIdGenerator exercised on its own --------------- *)

\* Largest maxId a generator is constructed with.
MaxGenId == 11

\* Number of calls made to one generator.
MaxGenCalls == 14

\* Number.prototype.toString(): the decimal digits of a non-negative integer.
RECURSIVE toString(_)
toString(n) == IF n < 10 THEN <<n>> ELSE Append(toString(n \div 10), n % 10)

\* String.prototype.padStart(targetLength, "0")
RECURSIVE padStart(_, _)
padStart(str, targetLength) ==
    IF Len(str) >= targetLength THEN str
    ELSE padStart(<<0>> \o str, targetLength)

\* floor(log10(|n|)) + 1, and 1 for 0.
RECURSIVE countDigits(_)
countDigits(n) == IF n < 10 THEN 1 ELSE 1 + countDigits(n \div 10)

\* new RotatingIdGenerator(maxId, startId), for integers 0 <= startId < maxId.
RotatingIdGenerator(maxId, startId) ==
    [startId |-> startId, maxId |-> maxId,
     minFormatDigitCount |-> countDigits(maxId), nextId |-> startId]

setMinFormatDigitCount(g, maxDigCount) ==
    [g EXCEPT !.minFormatDigitCount =
        IF maxDigCount < 0 THEN countDigits(g.maxId) ELSE maxDigCount]

\* createNextId: the generator after the call and the id returned.
RotatingIdGenerator_createNextId(g) ==
    [gen |-> [g EXCEPT !.nextId = IF g.nextId = g.maxId THEN g.startId
                                  ELSE g.nextId + 1],
     id |-> g.nextId]

\* formatId(id) for an id in [startId, maxId]: renders this.#nextId.
RotatingIdGenerator_formatId(g, id) ==
    padStart(toString(g.nextId), g.minFormatDigitCount)

RotatingIdGenerator_createAndFormatNextId(g) ==
    LET c == RotatingIdGenerator_createNextId(g)
    IN [gen |-> c.gen,
        res |-> [idNum |-> c.id,
                 idStr |-> RotatingIdGenerator_formatId(c.gen, c.id)]]

\* The values passed to setMinFormatDigitCount.
DigitCounts == {-1, 0, 1, 3}

IdGenInit ==
    /\ ops = <<>>
    /\ activeOps = <<>>
    /\ loggedOps = <<>>
    /\ lastLoggedTs = 0
    /\ trimming = FALSE
    /\ nextId = OperationIdStart
    /\ config = [logBufferSize |-> 6, logBufferCleanStep |-> 6,
                 writeToConsole |-> TRUE, eventDisplayDurationMSec |-> 3000]
    /\ handles = <<>>
    /\ now = 0
    /\ today = 1
    /\ calls = 0
    /\ last = [call |-> "init", op |-> 0, ret |-> FALSE, exc |-> FALSE,
               notes |-> <<>>, console |-> <<>>, trims |-> <<>>,
               dropped |-> <<>>, preOps |-> <<>>, preActive |-> <<>>,
               preLogged |-> <<>>, thrown |-> "none"]
    /\ captures = NoCapture
    /\ statusView = rebuildFullLogView(loggedOps)
    /\ \E maxId \in 1..MaxGenId : \E startId \in 0..(maxId - 1) :
          util = [kind |-> "idgen", call |-> "init", k |-> 0,
                  gen |-> RotatingIdGenerator(maxId, startId),
                  res |-> [idNum |-> -1, idStr |-> <<>>]]

\* Everything but the utility object stays as it is.
TrackerUnchanged ==
    UNCHANGED <<ops, activeOps, loggedOps, lastLoggedTs, trimming, nextId,
                config, handles, now, today, calls, last, captures,
                statusView>>

\* generator.createAndFormatNextId(), the k-th call.
CreateAndFormatNextId ==
    /\ util.k < MaxGenCalls
    /\ \E c \in {RotatingIdGenerator_createAndFormatNextId(util.gen)} :
          util' = [util EXCEPT !.call = "createAndFormatNextId", !.k = @ + 1,
                                !.gen = c.gen, !.res = c.res]
    /\ TrackerUnchanged

\* generator.setMinFormatDigitCount(n)
SetMinFormatDigitCount(n) ==
    /\ util.k < MaxGenCalls
    /\ util.gen.minFormatDigitCount #
          setMinFormatDigitCount(util.gen, n).minFormatDigitCount
    /\ util' = [util EXCEPT !.call = "setMinFormatDigitCount",
                             !.gen = setMinFormatDigitCount(util.gen, n)]
    /\ TrackerUnchanged

IdGenNext ==
    \/ CreateAndFormatNextId
    \/ \E n \in DigitCounts : SetMinFormatDigitCount(n)

SpecIdGen == IdGenInit /\ [][IdGenNext]_vars

(* ------------------------------ C31 ----------------------------------- *)

\* The decimal digits of n, least significant last.
RECURSIVE DecimalOf(_)
DecimalOf(n) == IF n < 10 THEN <<n>> ELSE DecimalOf(n \div 10) \o <<n % 10>>

\* str is the rendering of n, with zeros in front up to minDigits digits.
IsZeroPadded(str, n, minDigits) ==
    LET d == DecimalOf(n)
        pad == IF Len(d) >= minDigits THEN 0 ELSE minDigits - Len(d)
    IN /\ Len(str) = pad + Len(d)
       /\ \A i \in 1..Len(str) :
             str[i] = IF i <= pad THEN 0 ELSE d[i - pad]

\* The idNum the k-th call of a generator has to return.
KthId(g, k) == g.startId + ((k - 1) % (g.maxId - g.startId + 1))

\* C31: the k-th call of createAndFormatNextId returns
\* idNum = startId + ((k-1) mod (maxId-startId+1)), within [startId, maxId],
\* and idStr is the decimal rendering of that idNum, left-padded with zeros
\* to the minimum digit count.
C31_KthIdAndItsRendering ==
    util.kind = "idgen" /\ util.call = "createAndFormatNextId" =>
        /\ util.res.idNum = KthId(util.gen, util.k)
        /\ util.res.idNum \in util.gen.startId..util.gen.maxId
        /\ IsZeroPadded(util.res.idStr, util.res.idNum,
                        util.gen.minFormatDigitCount)

\* The part of C31 about idNum alone: sequence, range and wrap.
C31_KthIdNum ==
    util.kind = "idgen" /\ util.call = "createAndFormatNextId" =>
        /\ util.res.idNum = KthId(util.gen, util.k)
        /\ util.res.idNum \in util.gen.startId..util.gen.maxId

\* What idStr is: the rendering of the id the next call will return.
C31_RendersFollowingId ==
    util.kind = "idgen" /\ util.call = "createAndFormatNextId" =>
        IsZeroPadded(util.res.idStr, KthId(util.gen, util.k + 1),
                     util.gen.minFormatDigitCount)

(* --------------------- sync driver: downloadData ---------------------- *)

\* Number of downloadData calls the host makes in one behaviour.
MaxSyncCalls == 3

\* The module state of sync-driver.ts and of status-log.ts, and one record
\* per downloadData call: where its async body stands (pc), its operation
\* and the prevImportantOperationOngoing it holds.
NoSync ==
    [kind |-> "sync", call |-> "init", isSyncInProgress |-> FALSE,
     isImportantOperationOngoing |-> FALSE, progress |-> 0, runs |-> <<>>]

\* statusLog.setImportantOperationOngoing(isOngoing)
setImportantOperationOngoing(u, isOngoing) ==
    [u EXCEPT !.isImportantOperationOngoing = isOngoing]

\* A finally block that leaves isSyncInProgress as it is.
downloadDataFinallyKeepingFlag(u, r) ==
    setImportantOperationOngoing([u EXCEPT !.progress = 100], u.runs[r].prev)

\* The finally block of downloadData, for the call r.
downloadDataFinally(u, r) ==
    [setImportantOperationOngoing([u EXCEPT !.progress = 100], u.runs[r].prev)
        EXCEPT !.isSyncInProgress = FALSE]

\* The promise of call r settles: finally has run; the call is rejected
\* when an exception propagates out of the body.
downloadDataSettle(s, u, r) ==
    [s |-> s,
     u |-> [downloadDataFinally(u, r) EXCEPT
               !.runs[r].pc = IF s.exc THEN "rejected" ELSE "resolved"]]

\* catch (err) { opDownloadData.setFailureAndRethrow(err); } finally {..}
downloadDataCatch(s, u, r) ==
    downloadDataSettle(
        setFailureAndRethrow([s EXCEPT !.exc = FALSE, !.thrown = "none"],
                             u.runs[r].op, "error", 0), u, r)

\* downloadData(..) up to its first await: the check of isSyncInProgress,
\* the operation and its info lines, then the flag.
downloadDataBegin(s, u, sameDay) ==
    IF u.isSyncInProgress
    THEN [s |-> [s EXCEPT !.exc = TRUE],
          u |-> [u EXCEPT !.runs = Append(@, [pc |-> "rejectedBusy", op |-> 0,
                                              prev |-> FALSE])]]
    ELSE
    LET o == Len(s.ops) + 1
        s1 == startOperation(s, "Download Data", "data", 0)
        s2 == IF s1.exc THEN s1 ELSE addInfo(s1, o, "data", 0)
        s3 == IF s2.exc \/ ~sameDay THEN s2 ELSE addInfo(s2, o, "data", 0)
    IN IF s3.exc
       THEN [s |-> s3,
             u |-> [u EXCEPT !.runs = Append(@, [pc |-> "rejected", op |-> o,
                                                 prev |-> FALSE])]]
       ELSE [s |-> s3,
             u |-> [setImportantOperationOngoing(
                       [u EXCEPT !.isSyncInProgress = TRUE], TRUE)
                    EXCEPT !.runs = Append(@,
                       [pc |-> "awaitSettings", op |-> o,
                        prev |-> u.isImportantOperationOngoing])]]

\* The body of call r after `await useSettings()`: the settings could not
\* be loaded ("throws"), hold no API token ("noToken") or hold one.
downloadDataAfterSettings(s, u, r, outcome) ==
    IF outcome = "throws" THEN downloadDataCatch(s, u, r)
    ELSE IF outcome = "noToken"
    THEN LET s1 == setCompleted(s, u.runs[r].op, FALSE, "data", 0)
         IN IF s1.exc THEN downloadDataCatch(s1, u, r)
            ELSE downloadDataSettle(s1, u, r)
    ELSE LET s1 == addInfo(s, u.runs[r].op, "data", 0)
         IN IF s1.exc THEN downloadDataCatch(s1, u, r)
            ELSE [s |-> s1, u |-> [u EXCEPT !.runs[r].pc = "awaitExcel"]]

\* The body of call r after `await Excel.run(..)`, which resolved (isOk)
\* or rejected.
downloadDataAfterExcelRun(s, u, r, isOk) ==
    IF ~isOk THEN downloadDataCatch(s, u, r)
    ELSE LET s1 == setCompleted(s, u.runs[r].op, TRUE, "none", 0)
         IN IF s1.exc THEN downloadDataCatch(s1, u, r)
            ELSE downloadDataSettle(s1, u, r)

SettingsOutcomes == {"token", "noToken", "throws"}

SyncInit ==
    /\ ops = <<>>
    /\ activeOps = <<>>
    /\ loggedOps = <<>>
    /\ lastLoggedTs = 0
    /\ trimming = FALSE
    /\ nextId = OperationIdStart
    /\ config = [logBufferSize |-> 6, logBufferCleanStep |-> 6,
                 writeToConsole |-> TRUE, eventDisplayDurationMSec |-> 3000]
    /\ handles = <<>>
    /\ now = 0
    /\ today = 1
    /\ calls = 0
    /\ last = [call |-> "init", op |-> 0, ret |-> FALSE, exc |-> FALSE,
               notes |-> <<>>, console |-> <<>>, trims |-> <<>>,
               dropped |-> <<>>, preOps |-> <<>>, preActive |-> <<>>,
               preLogged |-> <<>>, thrown |-> "none"]
    /\ captures = NoCapture
    /\ statusView = rebuildFullLogView(loggedOps)
    /\ util = NoSync

\* The state after a step x of downloadData.
CommitSync(x, call) ==
    /\ Commit(x.s, call, 0)
    /\ util' = [x.u EXCEPT !.call = call]
    /\ UNCHANGED <<config, handles, now, today, captures>>

\* downloadData(startDate, endDate, ..), called by the host.
DownloadData(sameDay) ==
    /\ calls < MaxSyncCalls
    /\ \E x \in {downloadDataBegin(Tracker, util, sameDay)} :
          CommitSync(x, "downloadData")
    /\ calls' = calls + 1

\* The promise of useSettings() settles and the body of call r goes on.
SettingsLoaded(r, outcome) ==
    /\ r \in 1..Len(util.runs)
    /\ util.runs[r].pc = "awaitSettings"
    /\ \E x \in {downloadDataAfterSettings(Tracker, util, r, outcome)} :
          CommitSync(x, "afterSettings")
    /\ UNCHANGED calls

\* The promise of Excel.run(..) settles and the body of call r goes on.
ExcelRunSettled(r, isOk) ==
    /\ r \in 1..Len(util.runs)
    /\ util.runs[r].pc = "awaitExcel"
    /\ \E x \in {downloadDataAfterExcelRun(Tracker, util, r, isOk)} :
          CommitSync(x, "afterExcelRun")
    /\ UNCHANGED calls

SyncNext ==
    \/ \E sameDay \in BOOLEAN : DownloadData(sameDay)
    \/ \E r \in 1..MaxSyncCalls : \E outcome \in SettingsOutcomes :
          SettingsLoaded(r, outcome)
    \/ \E r \in 1..MaxSyncCalls : \E isOk \in BOOLEAN : ExcelRunSettled(r, isOk)

SpecSync == SyncInit /\ [][SyncNext]_vars

(* ------------------------------ C32 ----------------------------------- *)

\* The downloadData calls whose body is suspended at an await.
RunningSyncs(u) ==
    {r \in 1..Len(u.runs) : u.runs[r].pc \in {"awaitSettings", "awaitExcel"}}

\* C32: at most one data sync runs at a time. The in-progress flag is set
\* exactly while a sync runs, so it is cleared on every path on which the
\* sync ends; a call made while a sync runs is rejected and changes neither
\* the running sync nor the flag; a call made while none runs starts one.
C32_OneSyncAtATime ==
    [][util.kind = "sync" =>
       /\ Cardinality(RunningSyncs(util')) <= 1
       /\ util'.isSyncInProgress = (RunningSyncs(util') # {})
       /\ (util'.call = "downloadData" /\ calls' = calls + 1) =>
             LET r == Len(util'.runs)
             IN /\ Len(util'.runs) = Len(util.runs) + 1
                /\ IF RunningSyncs(util) # {}
                   THEN /\ util'.runs[r].pc = "rejectedBusy"
                        /\ last'.exc
                        /\ util'.isSyncInProgress
                        /\ util'.runs = Append(util.runs, util'.runs[r])
                        /\ RunningSyncs(util') = RunningSyncs(util)
                        /\ ops' = ops /\ loggedOps' = loggedOps
                        /\ activeOps' = activeOps
                        /\ util'.isImportantOperationOngoing
                              = util.isImportantOperationOngoing
                   ELSE /\ util'.runs[r].pc = "awaitSettings"
                        /\ RunningSyncs(util') = {r}
       /\ \A r \in RunningSyncs(util) \ RunningSyncs(util') :
             /\ util'.runs[r].pc \in {"resolved", "rejected"}
             /\ ~util'.isSyncInProgress]_vars

\* A third call starts a sync after the first one was running while the
\* second call was rejected, and after the first one has ended.
C32_Witness ==
    /\ util.kind = "sync"
    /\ Len(util.runs) = 3
    /\ util.runs[1].pc \in {"resolved", "rejected"}
    /\ util.runs[2].pc = "rejectedBusy"
    /\ util.runs[3].pc = "awaitSettings"
    /\ util.isSyncInProgress

(* ------------------- formatDuration on its own ------------------------ *)

\* Largest number of whole hours in a duration passed to formatDuration.
MaxHours == 2

\* The minutes, seconds and milliseconds the durations are composed of.
DurationMinutes == {0, 1, 59}
DurationSeconds == {0, 7, 59}
DurationMillis == {0, 5, 999}

\* The characters of the decimal digits.
DigitChar == <<"0", "1", "2", "3", "4", "5", "6", "7", "8", "9">>

\* A sequence of digits as a string (a sequence of characters).
DigitString(digits) == [i \in 1..Len(digits) |-> DigitChar[digits[i] + 1]]

\* formatDuration(totalMSec) for a whole number of milliseconds; the
\* result is the sequence of its characters.
formatDuration(totalMSec) ==
    LET isNegative == totalMSec < 0
        rounded == totalMSec * 10
        totalMicrosec100s == IF rounded < 0 THEN -rounded ELSE rounded
        microsec100s == totalMicrosec100s % 10000
        mics == DigitString(padStart(toString(microsec100s), 4))
        totalSec == totalMicrosec100s \div 10000
        sec == totalSec % 60
        ss == DigitString(padStart(toString(sec), 2))
        totalMin == totalSec \div 60
        min == totalMin % 60
        mm == DigitString(padStart(toString(min), 2))
        totalHrs == totalMin \div 60
        hh == DigitString(toString(sec))
        sign == IF isNegative THEN <<"-">> ELSE <<>>
    IN IF totalMicrosec100s = 0 THEN <<"0", "m", "s">>
       ELSE IF totalSec = 0
       THEN sign \o <<"0", ".">> \o mics \o <<"s">>
       ELSE IF totalMin = 0
       THEN sign \o ss \o <<".">> \o mics \o <<"s">>
       ELSE IF totalHrs = 0
       THEN sign \o mm \o <<":">> \o ss \o <<".">> \o mics
       ELSE hh \o <<":">> \o mm \o <<":">> \o ss \o <<".">> \o mics

\* The durations formatDuration is applied to.
Durations ==
    {sg * (((h * 60 + m) * 60 + sc) * 1000 + f) :
        sg \in {1, -1}, h \in 0..MaxHours, m \in DurationMinutes,
        sc \in DurationSeconds, f \in DurationMillis}

DurationInit ==
    /\ ops = <<>>
    /\ activeOps = <<>>
    /\ loggedOps = <<>>
    /\ lastLoggedTs = 0
    /\ trimming = FALSE
    /\ nextId = OperationIdStart
    /\ config = [logBufferSize |-> 6, logBufferCleanStep |-> 6,
                 writeToConsole |-> TRUE, eventDisplayDurationMSec |-> 3000]
    /\ handles = <<>>
    /\ now = 0
    /\ today = 1
    /\ calls = 0
    /\ last = [call |-> "init", op |-> 0, ret |-> FALSE, exc |-> FALSE,
               notes |-> <<>>, console |-> <<>>, trims |-> <<>>,
               dropped |-> <<>>, preOps |-> <<>>, preActive |-> <<>>,
               preLogged |-> <<>>, thrown |-> "none"]
    /\ captures = NoCapture
    /\ statusView = rebuildFullLogView(loggedOps)
    /\ \E totalMSec \in Durations :
          util = [kind |-> "duration", call |-> "init",
                  totalMSec |-> totalMSec, res |-> <<>>]

\* formatDuration(totalMSec), called once.
FormatDuration ==
    /\ util.call = "init"
    /\ util' = [util EXCEPT !.call = "formatDuration",
                            !.res = formatDuration(util.totalMSec)]
    /\ TrackerUnchanged

DurationNext == FormatDuration

SpecDuration == DurationInit /\ [][DurationNext]_vars

(* ------------------------------ C33 ----------------------------------- *)

\* The positions of the character c in str.
PositionsOf(str, c) == {i \in 1..Len(str) : str[i] = c}

\* The number a string of decimal digits denotes, -1 for any other string.
RECURSIVE ValueOf(_)
ValueOf(str) ==
    IF str = <<>> THEN -1
    ELSE LET c == str[Len(str)]
             ds == {d \in 0..9 : DigitChar[d + 1] = c}
             d == CHOOSE x \in ds : TRUE
         IN IF ds = {} THEN -1
            ELSE IF Len(str) = 1 THEN d
            ELSE LET v == ValueOf(SubSeq(str, 1, Len(str) - 1))
                 IN IF v < 0 THEN -1 ELSE 10 * v + d

\* The parts of str between the separators ":" (and up to the "."), as
\* numbers, first to last.
ClockParts(str) ==
    LET dot == CHOOSE i \in PositionsOf(str, ".") : TRUE
        colons == PositionsOf(str, ":")
        cuts == colons \cup {0, dot}
        CutAfter(i) == CHOOSE j \in cuts : j > i /\ \A k \in cuts : k > i => j <= k
        Starts == cuts \ {dot}
    IN [i \in Starts |-> ValueOf(SubSeq(str, i + 1, CutAfter(i) - 1))]

\* A formatDuration call has returned for a non-negative duration.
Formatted == util.kind = "duration" /\ util.call = "formatDuration"
                /\ util.totalMSec >= 0

\* C33: for every whole number of milliseconds t >= 3,600,000 the result is
\* hh:mm:ss.ffff with hh = floor(t / 3,600,000), mm = floor(t / 60,000) mod 60
\* and ss = floor(t / 1,000) mod 60; below one hour the hour part is absent,
\* below one minute the minute part is absent.
C33_DurationComponents ==
    Formatted =>
        LET t == util.totalMSec
            str == util.res
            colons == PositionsOf(str, ":")
        IN /\ t >= 3600000 =>
                /\ Cardinality(colons) = 2
                /\ Cardinality(PositionsOf(str, ".")) = 1
                /\ LET c1 == CHOOSE i \in colons : \A j \in colons : i <= j
                       c2 == CHOOSE i \in colons : \A j \in colons : j <= i
                       p == ClockParts(str)
                   IN /\ p[0] = t \div 3600000
                      /\ p[c1] = (t \div 60000) % 60
                      /\ p[c2] = (t \div 1000) % 60
           /\ (60000 <= t /\ t < 3600000) => Cardinality(colons) = 1
           /\ t < 60000 => colons = {}

\* The parts of C33 the code meets: the units adapt to the magnitude, and
\* the minutes and seconds of a duration of one hour or more are right.
C33_UnitsMinutesSeconds ==
    Formatted =>
        LET t == util.totalMSec
            str == util.res
            colons == PositionsOf(str, ":")
        IN /\ t >= 3600000 =>
                /\ Cardinality(colons) = 2
                /\ LET c1 == CHOOSE i \in colons : \A j \in colons : i <= j
                       c2 == CHOOSE i \in colons : \A j \in colons : j <= i
                       p == ClockParts(str)
                   IN /\ p[c1] = (t \div 60000) % 60
                      /\ p[c2] = (t \div 1000) % 60
           /\ (60000 <= t /\ t < 3600000) => Cardinality(colons) = 1
           /\ t < 60000 => colons = {}

(* ------------------------------ C34 ----------------------------------- *)

\* The texts of the tracker's log buffer, first to last.
BufferTexts == [i \in 1..Len(loggedOps) |-> <<loggedOps[i].opId,
                                              loggedOps[i].entry>>]

\* C34: whenever a tracker API call has returned, the copy of the log a
\* listener keeps by applying the notifications in the order received is
\* equal to the tracker's log buffer.
C34_ListenerCopyIsBuffer ==
    ~last.exc => statusView = BufferTexts

\* The copy is the buffer also when the last call has thrown.
C34_ListenerCopyAlways == statusView = BufferTexts

\* A call has returned during which the listener was told of an emitted
\* line, then of a deletion with a replacement, then of emitted lines.
C34_Witness ==
    /\ ~last.exc
    /\ \E i, j, k \in 1..Len(last.notes) :
          /\ i < j /\ j < k
          /\ last.notes[i].kind = "emitted"
          /\ last.notes[j].kind = "deleted"
          /\ last.notes[j].replacement # <<>>
          /\ last.notes[k].kind = "emitted"
    /\ statusView = BufferTexts

\* A drop has returned: the listener was told of a revised log and of the
\* lines emitted before and after it.
C34_WitnessRevised ==
    /\ ~last.exc
    /\ last.call = "dropLogEntriesForCompletedOps"
    /\ \E j, k \in 1..Len(last.notes) :
          /\ j < k
          /\ last.notes[j].kind = "revised"
          /\ last.notes[k].kind = "emitted"
    /\ statusView = BufferTexts

(* ------------------------------ C35 ----------------------------------- *)

\* C35: for every configuration with 1 <= logBufferCleanStep <= logBufferSize
\* every logLine call terminates: the trims an overflow leads to never nest
\* as deep as the call stack allows (each trim ends with the buffer within
\* the limit or is followed by finitely many more), no call ends with the
\* RangeError of an exhausted call stack, and the guard is false afterwards.
C35_TrimsTerminate ==
    /\ \A i \in 1..Len(last.trims) : last.trims[i].depth < MaxTrimDepth
    /\ ~trimming

\* The trims of a call end when logBufferCleanStep is 6 or more: a trim
\* starts inside another one only when the calendar day changed, and none
\* inside that one.
C35_TerminatesForLargeStep ==
    config.logBufferCleanStep >= 6 =>
        /\ \A i \in 1..Len(last.trims) : last.trims[i].depth <= 2
        /\ ~trimming

(* ------------------------------ C36 ----------------------------------- *)

\* The operations the tracker starts itself.
TrackerOwnOps ==
    {"Trimming Log Buffer", "Dropping Log Entries for Completed Operations"}

\* The positions in the notifications of the last call at which a line of
\* operation o with one of the monikers was emitted.
EmittedAt(o, monikers) ==
    {i \in 1..Len(last.notes) :
        /\ last.notes[i].kind = "emitted"
        /\ last.notes[i].entry.opId = ops[o].operationIdStr
        /\ last.notes[i].entry.entry[1] \in monikers}

\* The outcome of p was set before o was constructed: before the last call,
\* or by the last call when it is a completion of p, or (for an operation
\* of the tracker itself, whose only ERRS lines are those of its
\* completion) before a line of its completion that precedes the start
\* line of o.
CompletedBeforeStartOf(p, o) ==
    \/ p <= Len(last.preOps) /\ OutcomeDecided(last.preOps[p])
    \/ /\ p = last.op
       /\ last.call \in {"setSuccess", "setFailure", "setFailureAndRethrow"}
    \/ /\ ops[p].name \in TrackerOwnOps
       /\ \E i \in EmittedAt(p, {"SUCS", "FAIL", "ERRS"}) :
             \E j \in EmittedAt(o, {"STRT"}) : i < j

\* C36: no operation or event is created with a parent that is already
\* completed, the operations the tracker starts itself included.
C36_ParentPendingAtStart ==
    \A o \in (Len(last.preOps) + 1)..Len(ops) :
        ops[o].parent # 0 => ~CompletedBeforeStartOf(ops[o].parent, o)

\* The same for the operations and events the host creates.
C36_HostOpsParentPending ==
    \A o \in (Len(last.preOps) + 1)..Len(ops) :
        (ops[o].parent # 0 /\ ops[o].name \notin TrackerOwnOps)
            => ~CompletedBeforeStartOf(ops[o].parent, o)

(* ------------- a configuration with a clean step of 8 ----------------- *)

\* logBufferSize and logBufferCleanStep of a tracker whose trim removes
\* more entries than a drop operation has logged when it computes a range.
WideConfig == <<8, 8>>

WideInit ==
    /\ ops = <<>>
    /\ activeOps = <<>>
    /\ loggedOps = <<>>
    /\ lastLoggedTs = 0
    /\ trimming = FALSE
    /\ nextId = OperationIdStart
    /\ config = [logBufferSize |-> WideConfig[1],
                 logBufferCleanStep |-> WideConfig[2],
                 writeToConsole |-> TRUE, eventDisplayDurationMSec |-> 3000]
    /\ handles = <<>>
    /\ now = 0
    /\ today = 1
    /\ calls = 0
    /\ last = [call |-> "init", op |-> 0, ret |-> FALSE, exc |-> FALSE,
               notes |-> <<>>, console |-> <<>>, trims |-> <<>>,
               dropped |-> <<>>, preOps |-> <<>>, preActive |-> <<>>,
               preLogged |-> <<>>, thrown |-> "none"]
    /\ captures = NoCapture
    /\ statusView = rebuildFullLogView(loggedOps)
    /\ util = NoUtil

SpecWide == WideInit /\ [][Next]_vars

(* ------------------------------ C37 ----------------------------------- *)

\* C37: whenever a tracker API call has returned and the log buffer is
\* non-empty, the first entry of the buffer is a date marker.
C37_FirstEntryIsDate ==
    (~last.exc /\ loggedOps # <<>>) => loggedOps[1].type = "Date"

\* The first entry is a date marker also after a call that has thrown.
C37_FirstEntryIsDateAlways ==
    loggedOps # <<>> => loggedOps[1].type = "Date"

\* A call has returned that trimmed the buffer and put the date marker
\* back: the buffer starts with the marker the trim removed.
C37_Witness ==
    /\ ~last.exc
    /\ last.trims # <<>>
    /\ last.trims[1].replacement # <<>>
    /\ loggedOps # <<>>
    /\ loggedOps[1] = last.trims[Len(last.trims)].replacement[1]

\* A drop has returned that removed entries from the buffer.
C37_WitnessDrop ==
    /\ ~last.exc
    /\ last.call = "dropLogEntriesForCompletedOps"
    /\ last.dropped # <<>>
    /\ loggedOps[1].type = "Date"

(* ------------- cancelling the window capture at any time -------------- *)

\* The bridges, with a cancel() of the window capture that the host may
\* call while an accumulation window is open, however many occurrences of
\* the ResizeObserver loop error it holds.
LateCancelNext ==
    \/ CaptureNext
    \/ /\ calls < MaxCaptureCalls + MaxOccurrences + 1
       /\ captures.accumulatorOpen
       /\ CancelWindowCapture

SpecLateCancel == CaptureInit /\ [][LateCancelNext]_vars

(* ------------------------------ C38 ----------------------------------- *)

\* The step is made by the window bridge: one of its event handlers or the
\* timer of its accumulator.
WindowBridgeStep ==
    /\ calls' = calls + 1
    /\ last'.call \in {"windowEvent", "resizeObserverError",
                       "accumulatorTimeout"}

\* C38: after cancel() of the window-error capture has returned true, the
\* bridge records no further event in the tracker, whatever was observed
\* before the cancel.
C38_NothingRecordedAfterCancel ==
    [][(captures.isCaptureCancelled /\ WindowBridgeStep)
          => (ops' = ops /\ loggedOps' = loggedOps)]_vars

\* After the cancel the event handlers of the bridge record nothing.
C38_HandlersSilentAfterCancel ==
    [][(/\ captures.isCaptureCancelled
        /\ WindowBridgeStep
        /\ last'.call # "accumulatorTimeout")
          => (ops' = ops /\ loggedOps' = loggedOps
              /\ captures'.countEvents = captures.countEvents)]_vars

(* ---------------- redirectConsole exercised on its own ---------------- *)

\* Number of redirect handles created in one behaviour.
MaxRedirects == 3

\* Number of cancel() calls that restore or fail in one behaviour.
MaxCancels == 3

\* The redirect maps passed to redirectConsole: a single target for every
\* function (createRedirectAllMap), or a map for some of the functions.
RedirectMaps ==
    {ConsoleFuncNames, {"error"}, {"log", "warn"}, {"warn", "error"}}

\* console before any redirect: 0 stands for the function the console had,
\* h > 0 for the redirectFunc of handle h. A handle holds the names it
\* redirected, the function each had before and isRedirectCancelled.
NoRedirect ==
    [kind |-> "redirect", call |-> "init", h |-> 0, exc |-> FALSE,
     ret |-> FALSE, console |-> [fn \in ConsoleFuncNames |-> 0],
     redirectHandles |-> <<>>, cancelled |-> <<>>, failed |-> <<>>,
     forced |-> FALSE]

\* applyRedirectConsole(redirectMap): replaces console[fn] for every fn of
\* the map and returns the handle (the next entry of redirectHandles).
applyRedirectConsole(u, redirectMap) ==
    LET h == Len(u.redirectHandles) + 1
    IN [u EXCEPT
          !.call = "redirectConsole", !.h = h, !.exc = FALSE, !.ret = TRUE,
          !.console = [fn \in ConsoleFuncNames |->
                          IF fn \in redirectMap THEN h ELSE u.console[fn]],
          !.redirectHandles = Append(@,
              [redirections |-> redirectMap,
               originalFunc |-> [fn \in redirectMap |-> u.console[fn]],
               isRedirectCancelled |-> FALSE])]

\* A cancel that restores the originals without looking at the console.
redirectHandleCancelUnchecked(u, h, ignoreMismatch) ==
    LET hd == u.redirectHandles[h]
        u0 == [u EXCEPT !.call = "cancel", !.h = h, !.exc = FALSE]
    IN IF hd.isRedirectCancelled THEN [u0 EXCEPT !.ret = FALSE]
       ELSE [u0 EXCEPT
               !.ret = TRUE,
               !.console = [fn \in ConsoleFuncNames |->
                               IF fn \in hd.redirections
                               THEN hd.originalFunc[fn] ELSE u.console[fn]],
               !.redirectHandles[h].isRedirectCancelled = TRUE,
               !.cancelled = Append(@, h),
               !.forced = @ \/ ignoreMismatch]

\* redirectHandle.cancel({ignoreMismatch}) of handle h.
redirectHandleCancel(u, h, ignoreMismatch) ==
    LET hd == u.redirectHandles[h]
        u0 == [u EXCEPT !.call = "cancel", !.h = h, !.exc = FALSE]
    IN IF hd.isRedirectCancelled THEN [u0 EXCEPT !.ret = FALSE]
       ELSE IF ~ignoreMismatch
               /\ \E fn \in hd.redirections : u.console[fn] # h
       THEN [u0 EXCEPT !.exc = TRUE, !.failed = Append(@, h)]
       ELSE [u0 EXCEPT
               !.ret = TRUE,
               !.console = [fn \in ConsoleFuncNames |->
                               IF fn \in hd.redirections
                               THEN hd.originalFunc[fn] ELSE u.console[fn]],
               !.redirectHandles[h].isRedirectCancelled = TRUE,
               !.cancelled = Append(@, h),
               !.forced = @ \/ ignoreMismatch]

RedirectInit ==
    /\ ops = <<>>
    /\ activeOps = <<>>
    /\ loggedOps = <<>>
    /\ lastLoggedTs = 0
    /\ trimming = FALSE
    /\ nextId = OperationIdStart
    /\ config = [logBufferSize |-> 6, logBufferCleanStep |-> 6,
                 writeToConsole |-> TRUE, eventDisplayDurationMSec |-> 3000]
    /\ handles = <<>>
    /\ now = 0
    /\ today = 1
    /\ calls = 0
    /\ last = [call |-> "init", op |-> 0, ret |-> FALSE, exc |-> FALSE,
               notes |-> <<>>, console |-> <<>>, trims |-> <<>>,
               dropped |-> <<>>, preOps |-> <<>>, preActive |-> <<>>,
               preLogged |-> <<>>, thrown |-> "none"]
    /\ captures = NoCapture
    /\ statusView = rebuildFullLogView(loggedOps)
    /\ util = NoRedirect

\* redirectConsole(redirectMap) or redirectConsole(redirectTarget)
RedirectConsole(redirectMap) ==
    /\ Len(util.redirectHandles) < MaxRedirects
    /\ util' = applyRedirectConsole(util, redirectMap)
    /\ TrackerUnchanged

\* handle.cancel() or handle.cancel({ignoreMismatch: true})
RedirectCancel(h, ignoreMismatch) ==
    /\ h \in 1..Len(util.redirectHandles)
    /\ Len(util.cancelled) + Len(util.failed) < MaxCancels
    /\ util' = redirectHandleCancel(util, h, ignoreMismatch)
    /\ TrackerUnchanged

RedirectNext ==
    \/ \E redirectMap \in RedirectMaps : RedirectConsole(redirectMap)
    \/ \E h \in 1..MaxRedirects : \E ignoreMismatch \in BOOLEAN :
          RedirectCancel(h, ignoreMismatch)

SpecRedirect == RedirectInit /\ [][RedirectNext]_vars

(* ------------------------------ C39 ----------------------------------- *)

\* The handles installed after h that are not cancelled.
LaterInstalled(u, h) ==
    {g \in (h + 1)..Len(u.redirectHandles) :
        ~u.redirectHandles[g].isRedirectCancelled}

\* The step is handle.cancel() of h, without ignoreMismatch, on a handle
\* that is not cancelled, and no cancel has ignored a mismatch so far.
PlainCancelOf(h) ==
    /\ util.kind = "redirect"
    /\ util'.call = "cancel" /\ util'.h = h
    /\ util' # util
    /\ ~util'.forced
    /\ h \in 1..Len(util.redirectHandles)
    /\ ~util.redirectHandles[h].isRedirectCancelled

\* The cancel of the step has failed and has changed nothing.
CancelFailedUnchanged(h) ==
    /\ util'.exc
    /\ util'.console = util.console
    /\ util'.redirectHandles = util.redirectHandles
    /\ ~util'.redirectHandles[h].isRedirectCancelled

\* Cancelling in the reverse order of installation restores every console
\* function to the one installed before the first handle.
RestoredInReverseOrder ==
    (/\ util.kind = "redirect"
     /\ ~util.forced
     /\ Len(util.redirectHandles) >= 2
     /\ util.cancelled = [i \in 1..Len(util.redirectHandles) |->
                             Len(util.redirectHandles) + 1 - i])
        => util.console = [fn \in ConsoleFuncNames |-> 0]

\* C39 as stated: console redirects nest as a stack. Cancelling the handles
\* in the reverse order of installation makes every console function the
\* one installed before the first; cancelling a handle while a handle
\* installed later is still installed fails and leaves the console
\* functions and the handles unchanged.
C39_RedirectsNestAsStack ==
    [][/\ RestoredInReverseOrder'
       /\ \A h \in 1..MaxRedirects :
             (PlainCancelOf(h) /\ LaterInstalled(util, h) # {})
                => CancelFailedUnchanged(h)]_vars

\* C39 amended: the cancel fails exactly when the console holds another
\* function than the handle's own for one of the names the handle
\* redirected, which is the case when a handle installed later and still
\* installed redirects one of the same names; otherwise it succeeds and
\* restores the functions the handle replaced.
C39_RedirectsNestWhereTheyOverlap ==
    [][/\ RestoredInReverseOrder'
       /\ \A h \in 1..MaxRedirects :
             PlainCancelOf(h) =>
                IF \E g \in LaterInstalled(util, h) :
                      util.redirectHandles[g].redirections
                         \cap util.redirectHandles[h].redirections # {}
                THEN CancelFailedUnchanged(h)
                ELSE /\ ~util'.exc /\ util'.ret
                     /\ util'.redirectHandles[h].isRedirectCancelled
                     /\ \A fn \in ConsoleFuncNames :
                           util'.console[fn] =
                              IF fn \in util.redirectHandles[h].redirections
                              THEN util.redirectHandles[h].originalFunc[fn]
                              ELSE util.console[fn]]_vars

\* Two handles that redirect a common name were installed, the cancel of
\* the first failed while the second was installed, and both were then
\* cancelled in reverse order: the console is as it was.
C39_Witness ==
    /\ util.kind = "redirect"
    /\ Len(util.redirectHandles) = 2
    /\ util.redirectHandles[1].redirections = {"log", "warn"}
    /\ util.redirectHandles[2].redirections = {"warn", "error"}
    /\ util.failed = <<1>>
    /\ util.cancelled = <<2, 1>>
    /\ ~util.forced
    /\ util.console = [fn \in ConsoleFuncNames |-> 0]

(* ------- a listener whose notifyLogEntriesDeleted throws -------------- *)

ThrowingListenerInit ==
    /\ ops = <<>>
    /\ activeOps = <<>>
    /\ loggedOps = <<>>
    /\ lastLoggedTs = 0
    /\ trimming = FALSE
    /\ nextId = OperationIdStart
    /\ config \in {[logBufferSize |-> c[1], logBufferCleanStep |-> c[2],
                    writeToConsole |-> TRUE,
                    eventDisplayDurationMSec |-> 3000] :
                     c \in Configs \cup {WideConfig}}
    /\ handles = <<>>
    /\ now = 0
    /\ today = 1
    /\ calls = 0
    /\ last = [call |-> "init", op |-> 0, ret |-> FALSE, exc |-> FALSE,
               notes |-> <<>>, console |-> <<>>, trims |-> <<>>,
               dropped |-> <<>>, preOps |-> <<>>, preActive |-> <<>>,
               preLogged |-> <<>>, thrown |-> "none"]
    /\ captures = NoCapture
    /\ statusView = rebuildFullLogView(loggedOps)
    /\ util = ThrowingListener

SpecThrowingListener == ThrowingListenerInit /\ [][Next]_vars

(* ------------------------------ C40 ----------------------------------- *)

\* The trim operations started during the last call.
TrimOpsOfLastCall ==
    {o \in (Len(last.preOps) + 1)..Len(ops) :
        ops[o].name = "Trimming Log Buffer"}

\* C40: when the listener's notifyLogEntriesDeleted throws during a trim,
\* the error does not reach the caller whose log line triggered the trim:
\* the call raises nothing but the error setFailureAndRethrow was given,
\* every trim operation it started is completed as failed and is off the
\* active stack, and the trimming guard is cleared.
C40_ListenerErrorContained ==
    (util = ThrowingListener /\ last.trims # <<>>) =>
        /\ last.exc => (last.call = "setFailureAndRethrow"
                         /\ last.thrown = "given")
        /\ ~trimming
        /\ \A o \in TrimOpsOfLastCall :
              /\ ops[o].isFailed /\ ~ops[o].isSucceeded
              /\ indexOfActiveOps(Tracker, o) = 0

\* The same for the configurations with a clean step of 8 or more, where
\* the lines a failed trim logs fit into the room its removal has made.
C40_ContainedForLargeStep ==
    config.logBufferCleanStep >= 8 => C40_ListenerErrorContained

\* Two calls have each trimmed with a throwing listener.
C40_Witness ==
    /\ util = ThrowingListener
    /\ config.logBufferCleanStep >= 8
    /\ last.trims # <<>>
    /\ ~last.exc
    /\ TrimOpsOfLastCall # {}
    /\ \E o \in 1..Len(last.preOps) : ops[o].name = "Trimming Log Buffer"

====
